---- MODULE Spec2Model ----
(***************************************************************************)
(* Model of the two SQLite job queues of bot-verdinha and of the worker    *)
(* loops that consume them:                                                *)
(*   - shared/queue_store.py      QueueStore          (upload jobs)        *)
(*   - shared/download_store.py   DownloadQueueStore  (download jobs)      *)
(*   - upload/app.py   fila_watcher        (upload worker loop)            *)
(*   - download/app.py download_worker_loop (download worker loop)         *)
(* A table is a set of rows (records); every store method is an operator   *)
(* from the table before the call to the table after it.  Every store call *)
(* is one SQLite statement or one BEGIN IMMEDIATE transaction, hence one   *)
(* atomic action; a worker loop is a sequence of such calls, one action    *)
(* per call, with the worker's position in pc.                             *)
(***************************************************************************)
EXTENDS Integers, Sequences, FiniteSets, TLC

VARIABLES
    now,            \* int(time.time()), seconds
    ticks,          \* number of clock advances so far
    config,         \* the deployment: service, worker processes, job ids
    jobs,           \* table jobs of QueueStore (set of rows)
    runtime,        \* table runtime of QueueStore: value of key upload_running
    download_jobs,  \* table download_jobs of DownloadQueueStore (set of rows)
    flags,          \* table flags of DownloadQueueStore: key -> value
    pc,             \* worker -> position in its loop
    wjob,           \* worker -> the loop's local variable job (a job id)
    last_reclaim,   \* worker -> the loop's local variable last_reclaim
    wlocal,         \* worker -> the other locals of the loop
    claim_run,      \* the claim_next calls made since the last enqueue,
                    \* reclaim, requeue by a failure and clock advance:
                    \* got: job id -> the workers a call returned it to,
                    \* none: the workers a call returned None to
    fail_log,       \* job id -> at: the available_at written by the last
                    \* failure that requeued the job (NULL when none);
                    \* terminal: a failure moved it to failed and no
                    \* enqueue has reset it since
    bot,            \* run_download_bot: the two thresholds read from the
                    \* environment and meta, the meta.json written for each
                    \* chapter so far (status, found_images)
    urls,           \* two locators handed to normalize_url: a, and b which
                    \* differs from a in its fragment and tracking parameters
    fetch,          \* one call of download_with_retry: its arguments, its
                    \* position, the response of the current attempt and
                    \* the files <filepath>.tmp and <filepath>
    crawl,          \* run_download_bot on one work: the site, the progress
                    \* file, the locals of the chapter loop; or the file
                    \* progress.json and two processes inside save_progress
                    \* and clear_progress
    upload,         \* upload_obra in the upload worker process: the chapter
                    \* folders of the work, the position of the loop, and
                    \* bot_status['running'] of the API process and of the
                    \* worker process
    scroll          \* one call of scroll_until_stable: its arguments, its
                    \* locals, and the counts the page reported in each cycle

\* the state of the crawl code of download/app.py and of upload_obra
engine == <<bot, urls, fetch, crawl, upload, scroll>>

\* the state of the two queues and of their worker loops
queues == <<now, ticks, config, jobs, runtime, download_jobs, flags,
            pc, wjob, last_reclaim, wlocal, claim_run, fail_log>>

vars == <<now, ticks, config, jobs, runtime, download_jobs, flags,
          pc, wjob, last_reclaim, wlocal, claim_run, fail_log, engine>>

-----------------------------------------------------------------------------
(* Bounds of the model *)

T0 == 1000       \* clock value of the initial state
RaceTicks == 3   \* clock advances with two workers and no failures
StaleTicks == 1  \* clock advances with two workers and failures, and with stops
StaleTries == 1  \* no failure is injected there into a job with this many tries
OrderTicks == 1  \* clock advances with one worker, two jobs and no failures
RetryTicks == 3  \* clock advances with one worker and one job
RetryTries == 6  \* no failure is injected there into a job with this many tries
HandlerRaceTicks == 2  \* clock advances while two workers' handlers race
HandlerRaceTries == 2  \* no failure is injected there into a job with this many tries
BackoffTicks == 16     \* clock advances while one job fails on every attempt
MaxThreshold == 4      \* largest value of a threshold of the chapter classification
MaxImages == 5         \* largest number of images found in a chapter
MaxChapters == 2       \* chapters classified in one run of the bot
MaxParams == 1         \* query parameters of a locator before tracking parameters are added
MaxTracking == 1       \* tracking parameters added to a locator
MaxRetries == 3        \* largest max_retries passed to download_with_retry
MaxChunks == 2         \* largest number of chunks in the body of a response
MaxPages == 3          \* largest number of chapters of the work on the site
MaxJobs == 3           \* crawl jobs run for the work, one after the other
MaxExpected == 2       \* largest expected_total of a crawl job
MaxBatch == 2          \* largest batch_size of a crawl job
MaxFaults == 1          \* stop requests, blocks and errors that hit the crawl jobs of the work
MaxCalls == 2           \* calls of save_progress and clear_progress by one worker process
MaxFolders == 3         \* chapter folders of a work handed to upload_obra
GateTicks == 2          \* clock advances while the operator turns the run flag off and on
GateTries == 1          \* no failure is injected there into a job with this many tries
MaxCycles == 4          \* largest max_cycles of scroll_until_stable
MaxStable == 2          \* largest stable_cycles of scroll_until_stable
MaxCount == 1           \* largest number of wrappers, and of images, the page reports
CrashTicks == 4        \* clock advances while one worker dies and the other keeps running
MaxMaxTries == 8       \* largest max_tries passed to mark_failed there

Steps == {600}                   \* amounts by which the clock advances
JobIds == {"j1", "j2"}
Workers == {"w1", "w2"}

\* the deployments: which service runs, with which worker processes, which job
\* ids the producers submit (nargs: with how many different argument lists and
\* results), how far the clock goes, up to how many tries of a job failures
\* are injected, whether the operator stops the service again and whether
\* worker processes die
Deployments(service) ==
    { [service |-> service, workers |-> {"w1", "w2"}, jobids |-> {"j1"},
       nargs |-> 1, maxticks |-> RaceTicks, maxtries |-> 0,
       stops |-> FALSE, crashes |-> TRUE],
      [service |-> service, workers |-> {"w1", "w2"}, jobids |-> {"j1"},
       nargs |-> 1, maxticks |-> StaleTicks, maxtries |-> StaleTries,
       stops |-> FALSE, crashes |-> FALSE],
      [service |-> service, workers |-> {"w1"}, jobids |-> {"j1"},
       nargs |-> 1, maxticks |-> StaleTicks, maxtries |-> 0,
       stops |-> TRUE, crashes |-> FALSE],
      [service |-> service, workers |-> {"w1"}, jobids |-> {"j1", "j2"},
       nargs |-> 2, maxticks |-> OrderTicks, maxtries |-> 0,
       stops |-> FALSE, crashes |-> FALSE],
      [service |-> service, workers |-> {"w1"}, jobids |-> {"j1"},
       nargs |-> 1, maxticks |-> RetryTicks, maxtries |-> RetryTries,
       stops |-> FALSE, crashes |-> FALSE] }

NoJob == "none"                  \* Python None / unbound local job
NULL == -1                       \* SQL NULL in an INTEGER column
NoWorker == "NULL"               \* SQL NULL in the TEXT column worker_id
NoError == << >>                 \* SQL NULL (or '') in last_error

\* the argument triples (obra_nome, pasta, payload) producers enqueue
UploadArgs == { [n |-> 1, obra_nome |-> "obraA", pasta |-> "/d/obraA", payload |-> "pA"],
                [n |-> 2, obra_nome |-> "obraB", pasta |-> "/d/obraB", payload |-> "pB"] }

\* the arguments producers pass to DownloadQueueStore.enqueue
DownloadArgs == { [n |-> 1, url |-> "u/a/1", nome |-> "obraA", pasta |-> "/d/obraA",
                   expected_total |-> 0, batch_size |-> 0],
                  [n |-> 2, url |-> "u/b/1", nome |-> "obraB", pasta |-> "/d/obraB",
                   expected_total |-> 5, batch_size |-> 2] }

\* the progress snapshots update_status passes to DownloadQueueStore.heartbeat
ProgressArgs == { [chapter |-> 1, progress |-> 50, total_images |-> 3,
                   state |-> "running"] }

\* what run_download_bot returns / what _validate_and_write_summary returns
Results == {"success", "error"}
Summaries == {"ok"}

-----------------------------------------------------------------------------
(* shared/queue_store.py : QueueStore *)

Min(a, b) == IF a <= b THEN a ELSE b
Max(a, b) == IF a >= b THEN a ELSE b

\* the row of table tbl with primary key id
URow(tbl, id) == CHOOSE r \in tbl : r.id = id
UHas(tbl, id) == \E r \in tbl : r.id = id

\* variant: the backoff without its one-hour ceiling
compute_backoff_uncapped(tries) == 60 * (2 ^ Max(0, tries - 1))

compute_backoff_seconds(tries) == Min(60 * (2 ^ Max(0, tries - 1)), 3600)

\* variant: enqueue without the test for a done row
QueueStore_enqueue_done_too(tbl, ts, job_id, obra_nome, pasta, payload) ==
    IF \E r \in tbl : r.id = job_id
    THEN { IF r.id = job_id
           THEN [r EXCEPT !.obra_nome = obra_nome, !.pasta = pasta,
                          !.payload = payload, !.status = "queued",
                          !.available_at = NULL]
           ELSE r : r \in tbl }
    ELSE tbl \cup { [id |-> job_id, obra_nome |-> obra_nome, pasta |-> pasta,
                     payload |-> payload, status |-> "queued", tries |-> 0,
                     last_error |-> NoError, created_at |-> ts,
                     available_at |-> NULL,
                     processing_started_at |-> NULL, worker_id |-> NoWorker,
                     heartbeat_at |-> NULL] }

\* variant: enqueue whose UPDATE leaves the payload column out
QueueStore_enqueue_keep_payload(tbl, ts, job_id, obra_nome, pasta, payload) ==
    IF \E r \in tbl : r.id = job_id /\ r.status = "done"
    THEN tbl
    ELSE IF \E r \in tbl : r.id = job_id
    THEN { IF r.id = job_id
           THEN [r EXCEPT !.obra_nome = obra_nome, !.pasta = pasta,
                          !.status = "queued", !.available_at = NULL]
           ELSE r : r \in tbl }
    ELSE tbl \cup { [id |-> job_id, obra_nome |-> obra_nome, pasta |-> pasta,
                     payload |-> payload, status |-> "queued", tries |-> 0,
                     last_error |-> NoError, created_at |-> ts,
                     available_at |-> NULL,
                     processing_started_at |-> NULL, worker_id |-> NoWorker,
                     heartbeat_at |-> NULL] }

\* QueueStore.enqueue
QueueStore_enqueue(tbl, ts, job_id, obra_nome, pasta, payload) ==
    IF \E r \in tbl : r.id = job_id /\ r.status = "done"
    THEN tbl
    ELSE IF \E r \in tbl : r.id = job_id
    THEN { IF r.id = job_id
           THEN [r EXCEPT !.obra_nome = obra_nome, !.pasta = pasta,
                          !.payload = payload, !.status = "queued",
                          !.available_at = NULL]
           ELSE r : r \in tbl }
    ELSE tbl \cup { [id |-> job_id, obra_nome |-> obra_nome, pasta |-> pasta,
                     payload |-> payload, status |-> "queued", tries |-> 0,
                     last_error |-> NoError, created_at |-> ts,
                     available_at |-> NULL,
                     processing_started_at |-> NULL, worker_id |-> NoWorker,
                     heartbeat_at |-> NULL] }

\* variant: the SELECT of reclaim_stale_processing with <= in place of <
QueueStore_stale_inclusive(tbl, ts, timeout_seconds) ==
    { r \in tbl : r.status = "processing"
                  /\ (r.heartbeat_at = NULL \/ r.heartbeat_at <= ts - timeout_seconds) }

\* rows selected by reclaim_stale_processing
QueueStore_stale(tbl, ts, timeout_seconds) ==
    { r \in tbl : r.status = "processing"
                  /\ (r.heartbeat_at = NULL \/ r.heartbeat_at < ts - timeout_seconds) }

\* variant: reclaim_stale_processing without the forward-dated available_at
QueueStore_reclaim_no_delay(tbl, ts, timeout_seconds) ==
    { IF r \in QueueStore_stale(tbl, ts, timeout_seconds)
      THEN [r EXCEPT !.status = "queued", !.worker_id = NoWorker,
                     !.processing_started_at = NULL, !.heartbeat_at = NULL,
                     !.available_at = ts,
                     !.last_error = Append(r.last_error, "[reclaim]")]
      ELSE r : r \in tbl }

\* QueueStore.reclaim_stale_processing: the table after the call
QueueStore_reclaim_stale_processing(tbl, ts, timeout_seconds) ==
    { IF r \in QueueStore_stale(tbl, ts, timeout_seconds)
      THEN [r EXCEPT !.status = "queued", !.worker_id = NoWorker,
                     !.processing_started_at = NULL, !.heartbeat_at = NULL,
                     !.available_at = ts + 30,
                     !.last_error = Append(r.last_error, "[reclaim]")]
      ELSE r : r \in tbl }

\* variant: the SELECT of claim_next without its test of the status
QueueStore_eligible_any_status(tbl, ts) ==
    { r \in tbl : r.status \in {"queued", "processing"}
                  /\ (r.available_at = NULL \/ r.available_at <= ts) }

\* the SELECT of claim_next: queued rows that may run at ts
QueueStore_eligible(tbl, ts) ==
    { r \in tbl : r.status = "queued"
                  /\ (r.available_at = NULL \/ r.available_at <= ts) }

\* variant: ORDER BY created_at DESC
QueueStore_newest(tbl, ts) ==
    { r \in QueueStore_eligible(tbl, ts) :
        \A q \in QueueStore_eligible(tbl, ts) : r.created_at >= q.created_at }

\* ORDER BY created_at ASC LIMIT 1: the rows the SELECT may return
QueueStore_oldest(tbl, ts) ==
    { r \in QueueStore_eligible(tbl, ts) :
        \A q \in QueueStore_eligible(tbl, ts) : r.created_at <= q.created_at }

\* the UPDATE of claim_next
QueueStore_claim(tbl, ts, wid, job_id) ==
    { IF r.id = job_id
      THEN [r EXCEPT !.status = "processing",
                     !.processing_started_at = ts, !.worker_id = wid,
                     !.heartbeat_at = ts]
      ELSE r : r \in tbl }

\* QueueStore.heartbeat
QueueStore_heartbeat(tbl, ts, job_id, wid) ==
    { IF r.id = job_id /\ r.worker_id = wid /\ r.status = "processing"
      THEN [r EXCEPT !.heartbeat_at = ts]
      ELSE r : r \in tbl }

\* QueueStore.mark_done
QueueStore_mark_done(tbl, ts, job_id) ==
    { IF r.id = job_id
      THEN [r EXCEPT !.status = "done",
                     !.worker_id = NoWorker, !.heartbeat_at = NULL,
                     !.processing_started_at = NULL]
      ELSE r : r \in tbl }

\* QueueStore.mark_failed: the tries it computes
QueueStore_failed_tries(tbl, job_id) ==
    (IF UHas(tbl, job_id) THEN URow(tbl, job_id).tries ELSE 0) + 1

\* QueueStore.mark_failed: the table after the call
QueueStore_mark_failed(tbl, ts, job_id, error, requeue, max_tries) ==
    LET tries == QueueStore_failed_tries(tbl, job_id)
        again == requeue /\ tries < max_tries
    IN  { IF r.id = job_id
          THEN [r EXCEPT !.tries = tries, !.last_error = <<error>>,
                         !.status = IF again THEN "queued" ELSE "failed",
                         !.available_at = IF again
                                          THEN ts + compute_backoff_seconds(tries)
                                          ELSE NULL, !.worker_id = NoWorker,
                         !.heartbeat_at = NULL, !.processing_started_at = NULL]
          ELSE r : r \in tbl }

-----------------------------------------------------------------------------
(* shared/download_store.py : DownloadQueueStore *)

DRow(tbl, job_id) == CHOOSE r \in tbl : r.job_id = job_id
DHas(tbl, job_id) == \E r \in tbl : r.job_id = job_id

DActive == {"downloading", "validating"}

\* DownloadQueueStore.enqueue (INSERT OR IGNORE on the UNIQUE job_id)
DownloadQueueStore_enqueue(tbl, ts, url, nome, pasta, expected_total, batch_size, job_id) ==
    IF \E r \in tbl : r.job_id = job_id
    THEN tbl
    ELSE tbl \cup { [job_id |-> job_id, url |-> url, nome |-> nome,
                     pasta |-> pasta, expected_total |-> expected_total,
                     batch_size |-> batch_size, status |-> "queued",
                     tries |-> 0, available_at |-> ts, last_error |-> "",
                     result_json |-> "", summary_json |-> "",
                     worker_id |-> "", processing_started_at |-> 0,
                     heartbeat_at |-> 0, chapter |-> 0, progress |-> 0,
                     total_images |-> 0, state |-> "idle",
                     created_at |-> ts] }

\* the SELECT of claim_next
DownloadQueueStore_eligible(tbl, ts) ==
    { r \in tbl : r.status = "queued" /\ r.available_at <= ts }

\* ORDER BY created_at ASC LIMIT 1: the rows the SELECT may return
DownloadQueueStore_oldest(tbl, ts) ==
    { r \in DownloadQueueStore_eligible(tbl, ts) :
        \A q \in DownloadQueueStore_eligible(tbl, ts) : r.created_at <= q.created_at }

\* variant: a claim that counts as an attempt
DownloadQueueStore_claim_counts(tbl, ts, worker_id, job_id) ==
    { IF r.job_id = job_id /\ r.status = "queued"
      THEN [r EXCEPT !.status = "downloading", !.worker_id = worker_id,
                     !.processing_started_at = ts, !.heartbeat_at = ts,
                     !.state = "starting", !.tries = r.tries + 1]
      ELSE r : r \in tbl }

\* the UPDATE ... WHERE id=? AND status='queued' of claim_next
DownloadQueueStore_claim(tbl, ts, worker_id, job_id) ==
    { IF r.job_id = job_id /\ r.status = "queued"
      THEN [r EXCEPT !.status = "downloading", !.worker_id = worker_id,
                     !.processing_started_at = ts, !.heartbeat_at = ts,
                     !.state = "starting"]
      ELSE r : r \in tbl }

\* variant: DownloadQueueStore.heartbeat without its test of the status
DownloadQueueStore_heartbeat_any_status(tbl, ts, job_id, chapter, progress, total_images, state) ==
    { IF r.job_id = job_id
      THEN [r EXCEPT !.heartbeat_at = ts, !.chapter = chapter,
                     !.progress = progress, !.total_images = total_images,
                     !.state = IF state = "" THEN r.state ELSE state]
      ELSE r : r \in tbl }

\* DownloadQueueStore.heartbeat
DownloadQueueStore_heartbeat(tbl, ts, job_id, chapter, progress, total_images, state) ==
    { IF r.job_id = job_id /\ r.status \in DActive
      THEN [r EXCEPT !.heartbeat_at = ts, !.chapter = chapter,
                     !.progress = progress, !.total_images = total_images,
                     !.state = IF state = "" THEN r.state ELSE state]
      ELSE r : r \in tbl }

\* DownloadQueueStore.set_status
DownloadQueueStore_set_status(tbl, ts, job_id, status, state) ==
    { IF r.job_id = job_id
      THEN [r EXCEPT !.status = status,
                     !.state = IF state = "" THEN r.state ELSE state]
      ELSE r : r \in tbl }

\* DownloadQueueStore.mark_done
DownloadQueueStore_mark_done(tbl, ts, job_id, result, summary) ==
    { IF r.job_id = job_id
      THEN [r EXCEPT !.status = "done", !.state = "completed",
                     !.result_json = result, !.summary_json = summary]
      ELSE r : r \in tbl }

\* DownloadQueueStore.mark_failed
DownloadQueueStore_mark_failed(tbl, ts, job_id, error, next_available_at) ==
    { IF r.job_id = job_id
      THEN [r EXCEPT !.status = "queued", !.tries = r.tries + 1,
                     !.last_error = error, !.available_at = next_available_at,
                     !.state = "error"]
      ELSE r : r \in tbl }

\* DownloadQueueStore.fail_permanently
DownloadQueueStore_fail_permanently(tbl, ts, job_id, error) ==
    { IF r.job_id = job_id
      THEN [r EXCEPT !.status = "failed", !.tries = r.tries + 1,
                     !.last_error = error, !.state = "failed"]
      ELSE r : r \in tbl }

\* variant: the WHERE of reclaim_stale_downloading without its test of the status
DownloadQueueStore_stale_any_status(tbl, ts, timeout_seconds) ==
    { r \in tbl : r.heartbeat_at >= 0 /\ r.heartbeat_at < ts - timeout_seconds }

\* rows updated by reclaim_stale_downloading
DownloadQueueStore_stale(tbl, ts, timeout_seconds) ==
    { r \in tbl : r.status \in DActive /\ r.heartbeat_at > 0
                  /\ r.heartbeat_at < ts - timeout_seconds }

\* DownloadQueueStore.reclaim_stale_downloading: the table after the call
DownloadQueueStore_reclaim_stale_downloading(tbl, ts, timeout_seconds) ==
    { IF r \in DownloadQueueStore_stale(tbl, ts, timeout_seconds)
      THEN [r EXCEPT !.status = "queued", !.worker_id = "",
                     !.processing_started_at = 0, !.heartbeat_at = 0,
                     !.state = "reclaimed", !.available_at = ts + 5]
      ELSE r : r \in tbl }

\* download/app.py : the values of MIN_IMAGES_PER_CHAPTER and
\* MIN_IMAGES_PARTIAL when the environment does not set them
DefaultMinImagesPerChapter == 3
DefaultMinImagesPartial == 1

\* variant: the classification with > in place of >= in its first test
chapter_status_strict(found_n, min_images_per_chapter, min_images_partial) ==
    IF found_n > min_images_per_chapter THEN "ok"
    ELSE IF found_n >= min_images_partial THEN "partial"
    ELSE "broken"

\* run_download_bot: status = 'ok' if found_n >= MIN_IMAGES_PER_CHAPTER
\*                   else ('partial' if found_n >= MIN_IMAGES_PARTIAL else 'broken')
chapter_status(found_n, min_images_per_chapter, min_images_partial) ==
    IF found_n >= min_images_per_chapter THEN "ok"
    ELSE IF found_n >= min_images_partial THEN "partial"
    ELSE "broken"

-----------------------------------------------------------------------------
(* download/app.py : normalize_url. A locator is the text of a URL, held as  *)
(* what urlsplit and parse_qsl make of it: parses is FALSE for a text on     *)
(* which urlsplit raises ValueError (e.g. 'http://[::1/y'); query is the     *)
(* sequence of the name=value pairs as written                               *)

Schemes == {"https"}
Netlocs == {"x"}
Paths == {"/y", "/y/2"}
Fragments == {"", "frag"}

\* names of query parameters: tracking ones, in several spellings, and others
TrackingKeys == {"utm_source", "UTM_Medium", "ref", "Ref", "fbclid", "gclid",
                 "mc_cid", "mc_eid"}
OtherKeys == {"page", "refx", "utm"}

\* values of query parameters as written: blank, plain, percent-encoded
QueryValues == {"", "1", "b%20c"}

\* k.lower()
lower(k) ==
    CASE k = "UTM_Medium" -> "utm_medium"
      [] k = "Ref" -> "ref"
      [] OTHER -> k

\* lk.startswith('utm_')
startswith_utm(lk) == lk \in {"utm_source", "utm_medium"}

\* parse_qsl: percent-decoding of a name or value ('+' and %20 are a space)
unquote_plus(t) ==
    CASE t = "b%20c" -> "b c"
      [] t = "b+c" -> "b c"
      [] OTHER -> t

\* urlencode: quote_plus of a name or value
quote_plus(t) ==
    CASE t = "b c" -> "b+c"
      [] OTHER -> t

\* lk.startswith('utm_') or lk in {'ref', 'fbclid', 'gclid', 'mc_cid', 'mc_eid'}
is_tracking(k) ==
    \/ startswith_utm(lower(k))
    \/ lower(k) \in {"ref", "fbclid", "gclid", "mc_cid", "mc_eid"}

\* the loop over parse_qsl(parts.query, keep_blank_values=True) and
\* urlencode(keep_q): the pairs kept, written again
RECURSIVE keep_q(_)
keep_q(query) ==
    IF query = << >> THEN << >>
    ELSE LET k == unquote_plus(Head(query).k)
             v == unquote_plus(Head(query).v)
         IN  IF is_tracking(k) THEN keep_q(Tail(query))
             ELSE <<[k |-> quote_plus(k), v |-> quote_plus(v)]>> \o keep_q(Tail(query))

\* normalize_url: urlunsplit((scheme, netloc, path, query, '')), and
\* url.split('#', 1)[0] when the try block raises
normalize_url(url) ==
    IF url.parses
    THEN [url EXCEPT !.query = keep_q(url.query), !.fragment = ""]
    ELSE [url EXCEPT !.fragment = ""]

\* download/app.py : _backoff_seconds
backoff_seconds(tries) == Min(60 * (2 ^ Max(0, tries)), 3600)

-----------------------------------------------------------------------------
(* The clock and the record of the claim races *)

NoLocals == [sucesso |-> FALSE, job_row |-> NoJob, tries |-> 0, next_at |-> 0,
             result |-> ""]

NoClaims == [got |-> [j \in JobIds |-> {}], none |-> {}]

NoFails == [j \in JobIds |-> [at |-> NULL, terminal |-> FALSE]]

\* download/app.py with the default thresholds, before any chapter
NoBot == [MIN_IMAGES_PER_CHAPTER |-> DefaultMinImagesPerChapter,
          MIN_IMAGES_PARTIAL |-> DefaultMinImagesPartial, meta |-> << >>]

\* no locator has been handed to normalize_url
NoUrls == << >>

\* the crawl code is not running
\* download_with_retry has not been called
NoFetch == << >>

\* run_download_bot has not been called
NoCrawl == << >>

\* upload_obra is not modelled in the deployment
NoUpload == << >>

\* scroll_until_stable is not modelled in the deployment
NoScroll == << >>

EngineIdle ==
    /\ bot = NoBot
    /\ urls = NoUrls
    /\ fetch = NoFetch
    /\ crawl = NoCrawl
    /\ upload = NoUpload
    /\ scroll = NoScroll

\* time passes
Tick ==
    /\ ticks < config.maxticks
    /\ \E d \in Steps : now' = now + d
    /\ ticks' = ticks + 1
    /\ claim_run' = NoClaims
    /\ UNCHANGED <<config, jobs, runtime, download_jobs, flags,
                   pc, wjob, last_reclaim, wlocal>>
    /\ UNCHANGED <<fail_log, engine>>

-----------------------------------------------------------------------------
(* Upload service: producers, the operator, upload/app.py fila_watcher *)

UTries(j) == IF UHas(jobs, j) THEN URow(jobs, j).tries ELSE 0

\* a producer (adicionar_fila_upload of the download bot) enqueues a job
U_Enqueue(j, a) ==
    /\ config.service = "upload"
    /\ j \in config.jobids
    /\ a.n <= config.nargs
    /\ jobs' = QueueStore_enqueue(jobs, now, j, a.obra_nome, a.pasta, a.payload)
    /\ claim_run' = NoClaims
    /\ UNCHANGED engine
    /\ fail_log' = IF jobs' = jobs THEN fail_log
                   ELSE [fail_log EXCEPT ![j] = NoFails[j]]
    /\ UNCHANGED <<now, ticks, config, runtime, download_jobs, flags,
                   pc, wjob, last_reclaim, wlocal>>

\* /api/start and /api/stop: set_runtime('upload_running', v)
U_SetRunning(v) ==
    /\ config.service = "upload"
    /\ runtime # v
    /\ v \/ config.stops
    /\ runtime' = v
    /\ UNCHANGED <<now, ticks, config, jobs, download_jobs, flags,
                   pc, wjob, last_reclaim, wlocal, claim_run>>
    /\ UNCHANGED <<fail_log, engine>>

\* top of the loop: the periodic reclaim of orphaned processing jobs
U_LoopTop(w) ==
    /\ config.service = "upload"
    /\ w \in config.workers
    /\ pc[w] = "loop"
    /\ IF now - last_reclaim[w] > 60
       THEN /\ jobs' = QueueStore_reclaim_stale_processing(jobs, now, 600)
            /\ last_reclaim' = [last_reclaim EXCEPT ![w] = now]
            /\ claim_run' = NoClaims
       ELSE UNCHANGED <<jobs, last_reclaim, claim_run>>
    /\ pc' = [pc EXCEPT ![w] = "flag"]
    /\ UNCHANGED <<now, ticks, config, runtime, download_jobs, flags,
                   wjob, wlocal>>
    /\ UNCHANGED <<fail_log, engine>>

\* variant: the loop claims whatever the flag says
U_CheckFlag_ignores_flag(w) ==
    /\ config.service = "upload"
    /\ pc[w] = "flag"
    /\ pc' = [pc EXCEPT ![w] = "claim"]
    /\ UNCHANGED <<now, ticks, config, jobs, runtime, download_jobs, flags,
                   wjob, last_reclaim, wlocal, claim_run>>
    /\ UNCHANGED <<fail_log, engine>>

\* running = bool(get_runtime('upload_running', False))
U_CheckFlag(w) ==
    /\ config.service = "upload"
    /\ pc[w] = "flag"
    /\ pc' = [pc EXCEPT ![w] = IF runtime THEN "claim" ELSE "loop"]
    /\ UNCHANGED <<now, ticks, config, jobs, runtime, download_jobs, flags,
                   wjob, last_reclaim, wlocal, claim_run>>
    /\ UNCHANGED <<fail_log, engine>>

\* job = QUEUE_STORE.claim_next(worker_id=wid)
U_Claim(w) ==
    /\ config.service = "upload"
    /\ pc[w] = "claim"
    /\ IF QueueStore_oldest(jobs, now) = {}
       THEN /\ pc' = [pc EXCEPT ![w] = "loop"]
            /\ claim_run' = [claim_run EXCEPT !.none = @ \cup {w}]
            /\ UNCHANGED <<jobs, wjob>>
       ELSE \E r \in QueueStore_oldest(jobs, now) :
            /\ jobs' = QueueStore_claim(jobs, now, w, r.id)
            /\ wjob' = [wjob EXCEPT ![w] = r.id]
            /\ pc' = [pc EXCEPT ![w] = "work"]
            /\ claim_run' = [claim_run EXCEPT !.got[r.id] = @ \cup {w}]
    /\ UNCHANGED <<now, ticks, config, runtime, download_jobs, flags,
                   last_reclaim, wlocal>>
    /\ UNCHANGED <<fail_log, engine>>

\* the heartbeat thread, while upload_obra runs
U_Heartbeat(w) ==
    /\ config.service = "upload"
    /\ pc[w] = "work"
    /\ jobs' = QueueStore_heartbeat(jobs, now, wjob[w], w)
    /\ UNCHANGED claim_run
    /\ UNCHANGED <<now, ticks, config, runtime, download_jobs, flags,
                   pc, wjob, last_reclaim, wlocal>>
    /\ UNCHANGED <<fail_log, engine>>

\* sucesso = upload_obra(obra_info)
U_UploadReturns(w, ok) ==
    /\ config.service = "upload"
    /\ pc[w] = "work"
    /\ ok \/ UTries(wjob[w]) < config.maxtries
    /\ wlocal' = [wlocal EXCEPT ![w].sucesso = ok]
    /\ pc' = [pc EXCEPT ![w] = "report"]
    /\ UNCHANGED <<now, ticks, config, jobs, runtime, download_jobs, flags,
                   wjob, last_reclaim, claim_run>>
    /\ UNCHANGED <<fail_log, engine>>

\* mark_done(job.id) or mark_failed(job.id, ..., requeue=True, max_tries=5);
\* the locals job and sucesso are dead until the next claim
U_Report(w) ==
    /\ config.service = "upload"
    /\ pc[w] = "report"
    /\ jobs' = IF wlocal[w].sucesso
               THEN QueueStore_mark_done(jobs, now, wjob[w])
               ELSE QueueStore_mark_failed(jobs, now, wjob[w], "Falha no upload", TRUE, 5)
    /\ pc' = [pc EXCEPT ![w] = "loop"]
    /\ wjob' = [wjob EXCEPT ![w] = NoJob]
    /\ wlocal' = [wlocal EXCEPT ![w] = NoLocals]
    /\ claim_run' = IF wlocal[w].sucesso THEN claim_run ELSE NoClaims
    /\ UNCHANGED engine
    /\ fail_log' =
         IF wlocal[w].sucesso THEN fail_log
         ELSE IF URow(jobs', wjob[w]).status = "queued"
         THEN [fail_log EXCEPT ![wjob[w]].at = URow(jobs', wjob[w]).available_at]
         ELSE [fail_log EXCEPT ![wjob[w]].terminal = TRUE]
    /\ UNCHANGED <<now, ticks, config, runtime, download_jobs, flags,
                   last_reclaim>>

\* the worker process dies while it holds a job
U_Crash(w) ==
    /\ config.service = "upload"
    /\ config.crashes
    /\ pc[w] \in {"work", "report"}
    /\ pc' = [pc EXCEPT ![w] = "dead"]
    /\ UNCHANGED <<now, ticks, config, jobs, runtime, download_jobs, flags,
                   wjob, last_reclaim, wlocal, claim_run>>
    /\ UNCHANGED <<fail_log, engine>>

NextU ==
    \/ \E j \in JobIds, a \in UploadArgs : U_Enqueue(j, a)
    \/ \E v \in BOOLEAN : U_SetRunning(v)
    \/ \E w \in Workers : U_LoopTop(w)
    \/ \E w \in Workers : U_CheckFlag(w)
    \/ \E w \in Workers : U_Claim(w)
    \/ \E w \in Workers : U_Heartbeat(w)
    \/ \E w \in Workers, ok \in BOOLEAN : U_UploadReturns(w, ok)
    \/ \E w \in Workers : U_Report(w)
    \/ \E w \in Workers : U_Crash(w)

-----------------------------------------------------------------------------
(* Download service: producers, the operator, download/app.py               *)
(* download_worker_loop                                                     *)

DTries(j) == IF DHas(download_jobs, j) THEN DRow(download_jobs, j).tries ELSE 0

\* the positions of the loop at which a call can raise (a store call that
\* fails, run_download_bot, _validate_and_write_summary)
RaisePcs == {"loop", "flag", "claim", "clear_stop", "set_downloading", "run",
             "set_validating", "mark_done"}

\* the positions at which the worker executes the job it claimed
DHoldPcs == {"clear_stop", "set_downloading", "run", "set_validating", "mark_done"}

\* /api/download, /api/import_catalogo, the continuation job of a batch
D_Enqueue(j, a) ==
    /\ config.service = "download"
    /\ j \in config.jobids
    /\ a.n <= config.nargs
    /\ download_jobs' = DownloadQueueStore_enqueue(download_jobs, now, a.url,
                            a.nome, a.pasta, a.expected_total, a.batch_size, j)
    /\ claim_run' = NoClaims
    /\ UNCHANGED <<now, ticks, config, jobs, runtime, flags,
                   pc, wjob, last_reclaim, wlocal>>
    /\ UNCHANGED <<fail_log, engine>>

\* /api/stop and /api/resume: set_flag('download_stop_requested', v)
D_SetStop(v) ==
    /\ config.service = "download"
    /\ config.stops
    /\ flags.download_stop_requested # v
    /\ flags' = [flags EXCEPT !.download_stop_requested = v]
    /\ UNCHANGED <<now, ticks, config, jobs, runtime, download_jobs,
                   pc, wjob, last_reclaim, wlocal, claim_run>>
    /\ UNCHANGED <<fail_log, engine>>

\* top of the loop: the periodic reclaim of orphaned jobs
D_LoopTop(w) ==
    /\ config.service = "download"
    /\ w \in config.workers
    /\ pc[w] = "loop"
    /\ IF now - last_reclaim[w] > 60
       THEN /\ download_jobs' =
                  DownloadQueueStore_reclaim_stale_downloading(download_jobs, now, 600)
            /\ last_reclaim' = [last_reclaim EXCEPT ![w] = now]
            /\ claim_run' = NoClaims
       ELSE UNCHANGED <<download_jobs, last_reclaim, claim_run>>
    /\ pc' = [pc EXCEPT ![w] = "flag"]
    /\ UNCHANGED <<now, ticks, config, jobs, runtime, flags, wjob, wlocal>>
    /\ UNCHANGED <<fail_log, engine>>

\* if get_flag('download_running', '1') != '1': sleep, continue
D_CheckFlag(w) ==
    /\ config.service = "download"
    /\ pc[w] = "flag"
    /\ pc' = [pc EXCEPT ![w] = IF flags.download_running = "1" THEN "claim" ELSE "loop"]
    /\ UNCHANGED <<now, ticks, config, jobs, runtime, download_jobs, flags,
                   wjob, last_reclaim, wlocal, claim_run>>
    /\ UNCHANGED <<fail_log, engine>>

\* job_row = DOWNLOAD_STORE.claim_next(worker_id=worker_id)
D_Claim(w) ==
    /\ config.service = "download"
    /\ pc[w] = "claim"
    /\ IF DownloadQueueStore_oldest(download_jobs, now) = {}
       THEN /\ pc' = [pc EXCEPT ![w] = "loop"]
            /\ claim_run' = [claim_run EXCEPT !.none = @ \cup {w}]
            /\ UNCHANGED <<download_jobs, wlocal>>
       ELSE \E r \in DownloadQueueStore_oldest(download_jobs, now) :
            /\ download_jobs' = DownloadQueueStore_claim(download_jobs, now, w, r.job_id)
            /\ wlocal' = [wlocal EXCEPT ![w].job_row = r.job_id]
            /\ pc' = [pc EXCEPT ![w] = "clear_stop"]
            /\ claim_run' = [claim_run EXCEPT !.got[r.job_id] = @ \cup {w}]
    /\ UNCHANGED <<now, ticks, config, jobs, runtime, flags, wjob, last_reclaim>>
    /\ UNCHANGED <<fail_log, engine>>

\* set_flag('download_stop_requested', '0'); job = {... job_row ...}
D_ClearStop(w) ==
    /\ config.service = "download"
    /\ pc[w] = "clear_stop"
    /\ flags' = [flags EXCEPT !.download_stop_requested = "0"]
    /\ wjob' = [wjob EXCEPT ![w] = wlocal[w].job_row]
    /\ wlocal' = [wlocal EXCEPT ![w].job_row = NoJob]
    /\ pc' = [pc EXCEPT ![w] = "set_downloading"]
    /\ UNCHANGED <<now, ticks, config, jobs, runtime, download_jobs,
                   last_reclaim, claim_run>>
    /\ UNCHANGED <<fail_log, engine>>

\* set_status(job_id, 'downloading', state='running')
D_SetDownloading(w) ==
    /\ config.service = "download"
    /\ pc[w] = "set_downloading"
    /\ download_jobs' = DownloadQueueStore_set_status(download_jobs, now, wjob[w],
                                                      "downloading", "running")
    /\ pc' = [pc EXCEPT ![w] = "run"]
    /\ UNCHANGED claim_run
    /\ UNCHANGED <<now, ticks, config, jobs, runtime, flags, wjob,
                   last_reclaim, wlocal>>
    /\ UNCHANGED <<fail_log, engine>>

\* update_status inside run_download_bot: the heartbeat with the progress
D_Heartbeat(w, a) ==
    /\ config.service = "download"
    /\ pc[w] = "run"
    /\ download_jobs' = DownloadQueueStore_heartbeat(download_jobs, now, wjob[w],
                            a.chapter, a.progress, a.total_images, a.state)
    /\ UNCHANGED claim_run
    /\ UNCHANGED <<now, ticks, config, jobs, runtime, flags,
                   pc, wjob, last_reclaim, wlocal>>
    /\ UNCHANGED <<fail_log, engine>>

\* result = run_download_bot(job)
D_BotReturns(w, res) ==
    /\ config.service = "download"
    /\ pc[w] = "run"
    /\ res = "success" \/ config.nargs > 1
    /\ wlocal' = [wlocal EXCEPT ![w].result = res]
    /\ pc' = [pc EXCEPT ![w] = "set_validating"]
    /\ UNCHANGED <<now, ticks, config, jobs, runtime, download_jobs, flags,
                   wjob, last_reclaim, claim_run>>
    /\ UNCHANGED <<fail_log, engine>>

\* set_status(job_id, 'validating', state='validating')
D_SetValidating(w) ==
    /\ config.service = "download"
    /\ pc[w] = "set_validating"
    /\ download_jobs' = DownloadQueueStore_set_status(download_jobs, now, wjob[w],
                                                      "validating", "validating")
    /\ pc' = [pc EXCEPT ![w] = "mark_done"]
    /\ UNCHANGED claim_run
    /\ UNCHANGED <<now, ticks, config, jobs, runtime, flags, wjob,
                   last_reclaim, wlocal>>
    /\ UNCHANGED <<fail_log, engine>>

\* summary = _validate_and_write_summary(...); mark_done(job_id, result, summary)
D_MarkDone(w) ==
    /\ config.service = "download"
    /\ pc[w] = "mark_done"
    /\ \E summary \in Summaries :
         download_jobs' = DownloadQueueStore_mark_done(download_jobs, now, wjob[w],
                                                       wlocal[w].result, summary)
    /\ wlocal' = [wlocal EXCEPT ![w].result = ""]
    /\ pc' = [pc EXCEPT ![w] = "loop"]
    /\ UNCHANGED claim_run
    /\ UNCHANGED <<now, ticks, config, jobs, runtime, flags, wjob, last_reclaim>>
    /\ UNCHANGED <<fail_log, engine>>

\* except Exception: jid = job.get('job_id') if 'job' in locals() else None
\* (job is the job of the last iteration that reached its assignment)
D_Raise(w) ==
    /\ config.service = "download"
    /\ w \in config.workers
    /\ pc[w] \in RaisePcs
    /\ DTries(wjob[w]) < config.maxtries
    /\ pc' = [pc EXCEPT ![w] = "handler"]
    /\ wlocal' = [wlocal EXCEPT ![w].job_row = NoJob, ![w].result = ""]
    /\ UNCHANGED <<now, ticks, config, jobs, runtime, download_jobs, flags,
                   wjob, last_reclaim, claim_run>>
    /\ UNCHANGED <<fail_log, engine>>

\* if jid: j = get_job_by_job_id(jid); tries = int(j.tries) if j else 0;
\*         next_at = int(time.time() + _backoff_seconds(tries))
\* (without a jid the handler only logs and sleeps)
D_HandlerRead(w) ==
    /\ config.service = "download"
    /\ pc[w] = "handler"
    /\ IF wjob[w] = NoJob
       THEN /\ pc' = [pc EXCEPT ![w] = "loop"]
            /\ UNCHANGED wlocal
       ELSE /\ wlocal' = [wlocal EXCEPT
                             ![w].tries = DTries(wjob[w]),
                             ![w].next_at = now + backoff_seconds(DTries(wjob[w]))]
            /\ pc' = [pc EXCEPT ![w] = "handler_write"]
    /\ UNCHANGED <<now, ticks, config, jobs, runtime, download_jobs, flags,
                   wjob, last_reclaim, claim_run>>
    /\ UNCHANGED <<fail_log, engine>>

\* if tries >= 5: fail_permanently(jid, e) else: mark_failed(jid, e, next_at)
D_HandlerWrite(w) ==
    /\ config.service = "download"
    /\ pc[w] = "handler_write"
    /\ download_jobs' =
         IF wlocal[w].tries >= 5
         THEN DownloadQueueStore_fail_permanently(download_jobs, now, wjob[w], "error")
         ELSE DownloadQueueStore_mark_failed(download_jobs, now, wjob[w], "error",
                                             wlocal[w].next_at)
    /\ wlocal' = [wlocal EXCEPT ![w].tries = 0, ![w].next_at = 0]
    /\ pc' = [pc EXCEPT ![w] = "loop"]
    /\ claim_run' = NoClaims
    /\ UNCHANGED engine
    /\ fail_log' = IF wlocal[w].tries >= 5
                   THEN [fail_log EXCEPT ![wjob[w]].terminal = TRUE]
                   ELSE [fail_log EXCEPT ![wjob[w]].at = wlocal[w].next_at]
    /\ UNCHANGED <<now, ticks, config, jobs, runtime, flags, wjob, last_reclaim>>

\* the worker process dies while it holds a job
D_Crash(w) ==
    /\ config.service = "download"
    /\ config.crashes
    /\ pc[w] \in DHoldPcs
    /\ pc' = [pc EXCEPT ![w] = "dead"]
    /\ UNCHANGED <<now, ticks, config, jobs, runtime, download_jobs, flags,
                   wjob, last_reclaim, wlocal, claim_run>>
    /\ UNCHANGED <<fail_log, engine>>

NextD ==
    \/ \E j \in JobIds, a \in DownloadArgs : D_Enqueue(j, a)
    \/ \E v \in {"0", "1"} : D_SetStop(v)
    \/ \E w \in Workers : D_LoopTop(w)
    \/ \E w \in Workers : D_CheckFlag(w)
    \/ \E w \in Workers : D_Claim(w)
    \/ \E w \in Workers : D_ClearStop(w)
    \/ \E w \in Workers : D_SetDownloading(w)
    \/ \E w \in Workers, a \in ProgressArgs : D_Heartbeat(w, a)
    \/ \E w \in Workers, res \in Results : D_BotReturns(w, res)
    \/ \E w \in Workers : D_SetValidating(w)
    \/ \E w \in Workers : D_MarkDone(w)
    \/ \E w \in Workers : D_Raise(w)
    \/ \E w \in Workers : D_HandlerRead(w)
    \/ \E w \in Workers : D_HandlerWrite(w)
    \/ \E w \in Workers : D_Crash(w)

-----------------------------------------------------------------------------
(* Initial states *)

InitCommon ==
    /\ now = T0
    /\ ticks = 0
    /\ jobs = {}
    /\ download_jobs = {}
    /\ pc = [w \in Workers |-> "loop"]
    /\ wjob = [w \in Workers |-> NoJob]
    /\ last_reclaim = [w \in Workers |-> 0]
    /\ wlocal = [w \in Workers |-> NoLocals]
    /\ claim_run = NoClaims
    /\ fail_log = NoFails

\* upload/worker.py main: the flag upload_running exists and is False
InitU ==
    /\ InitCommon
    /\ EngineIdle
    /\ config \in Deployments("upload")
    /\ runtime = FALSE
    /\ flags = [download_running |-> "", download_stop_requested |-> "0"]

\* download_worker_loop start: the flag download_running is '1'
InitD ==
    /\ InitCommon
    /\ EngineIdle
    /\ config \in Deployments("download")
    /\ runtime = FALSE
    /\ flags = [download_running |-> "1", download_stop_requested |-> "0"]

Init == InitU \/ InitD

Next == Tick \/ NextU \/ NextD

\* both services, each in each of its deployments
Spec == Init /\ [][Next]_vars

NextUpload == Tick \/ NextU

\* the upload service alone
SpecU == InitU /\ [][NextUpload]_vars

NextDownload == Tick \/ NextD

\* the download service alone
SpecD == InitD /\ [][NextDownload]_vars

-----------------------------------------------------------------------------
(* Two download workers whose failure handlers race on one job *)

HandlerRace ==
    [service |-> "download", workers |-> {"w1", "w2"}, jobids |-> {"j1"},
     nargs |-> 1, maxticks |-> HandlerRaceTicks, maxtries |-> HandlerRaceTries,
     stops |-> FALSE, crashes |-> FALSE]

InitHR ==
    /\ InitCommon
    /\ EngineIdle
    /\ config = HandlerRace
    /\ runtime = FALSE
    /\ flags = [download_running |-> "1", download_stop_requested |-> "0"]

NextHR ==
    \/ Tick
    \/ \E j \in JobIds, a \in DownloadArgs : D_Enqueue(j, a)
    \/ \E w \in Workers : D_LoopTop(w)
    \/ \E w \in Workers : D_CheckFlag(w)
    \/ \E w \in Workers : D_Claim(w)
    \/ \E w \in Workers : D_ClearStop(w)
    \/ \E w \in Workers : D_SetDownloading(w)
    \/ \E w \in Workers, a \in ProgressArgs : D_Heartbeat(w, a)
    \/ \E w \in Workers, res \in Results : D_BotReturns(w, res)
    \/ \E w \in Workers : D_SetValidating(w)
    \/ \E w \in Workers : D_MarkDone(w)
    \/ \E w \in Workers : D_Raise(w)
    \/ \E w \in Workers : D_HandlerRead(w)
    \/ \E w \in Workers : D_HandlerWrite(w)

SpecHR == InitHR /\ [][NextHR]_vars

-----------------------------------------------------------------------------
(* QueueStore.mark_failed(job_id, error, requeue=True, max_tries=M) for every *)
(* M up to MaxMaxTries: one caller claims one job and fails it every time    *)

InitMF ==
    /\ InitCommon
    /\ EngineIdle
    /\ config \in { [service |-> "mark_failed", maxticks |-> BackoffTicks,
                      max_tries |-> m] : m \in 1..MaxMaxTries }
    /\ runtime = FALSE
    /\ flags = [download_running |-> "", download_stop_requested |-> "0"]

\* QueueStore.enqueue of the job
MF_Enqueue ==
    /\ jobs = {}
    /\ \E a \in UploadArgs :
         /\ a.n = 1
         /\ jobs' = QueueStore_enqueue(jobs, now, "j1", a.obra_nome, a.pasta, a.payload)
    /\ UNCHANGED <<now, ticks, config, runtime, download_jobs, flags,
                   pc, wjob, last_reclaim, wlocal, claim_run, fail_log, engine>>

\* QueueStore.claim_next("w1") when it returns a job
MF_Claim ==
    /\ pc["w1"] = "loop"
    /\ \E r \in QueueStore_oldest(jobs, now) :
         /\ jobs' = QueueStore_claim(jobs, now, "w1", r.id)
         /\ wjob' = [wjob EXCEPT !["w1"] = r.id]
    /\ pc' = [pc EXCEPT !["w1"] = "work"]
    /\ UNCHANGED <<now, ticks, config, runtime, download_jobs, flags,
                   last_reclaim, wlocal, claim_run, fail_log, engine>>

\* QueueStore.mark_failed(job.id, error, requeue=True, max_tries=M)
MF_Fail ==
    /\ pc["w1"] = "work"
    /\ jobs' = QueueStore_mark_failed(jobs, now, wjob["w1"], "Falha no upload",
                                      TRUE, config.max_tries)
    /\ wjob' = [wjob EXCEPT !["w1"] = NoJob]
    /\ pc' = [pc EXCEPT !["w1"] = "loop"]
    /\ UNCHANGED <<now, ticks, config, runtime, download_jobs, flags,
                   last_reclaim, wlocal, claim_run, fail_log, engine>>

NextMF == Tick \/ MF_Enqueue \/ MF_Claim \/ MF_Fail

SpecMF == InitMF /\ [][NextMF]_vars

-----------------------------------------------------------------------------
(* Crash recovery in the download queue: worker w1 may die while it holds   *)
(* the job, worker w2 keeps running its loop and the clock keeps advancing   *)

CrashRecovery ==
    [service |-> "download", workers |-> {"w1", "w2"}, jobids |-> {"j1"},
     nargs |-> 1, maxticks |-> CrashTicks, maxtries |-> 0,
     stops |-> FALSE, crashes |-> TRUE]

InitCR ==
    /\ InitCommon
    /\ EngineIdle
    /\ config = CrashRecovery
    /\ runtime = FALSE
    /\ flags = [download_running |-> "1", download_stop_requested |-> "0"]

\* one step of worker w's loop (download_worker_loop, while True)
D_Step(w) ==
    \/ D_LoopTop(w)
    \/ D_CheckFlag(w)
    \/ D_Claim(w)
    \/ D_ClearStop(w)
    \/ D_SetDownloading(w)
    \/ \E a \in ProgressArgs : D_Heartbeat(w, a)
    \/ \E res \in Results : D_BotReturns(w, res)
    \/ D_SetValidating(w)
    \/ D_MarkDone(w)

NextCR ==
    \/ Tick
    \/ \E j \in JobIds, a \in DownloadArgs : D_Enqueue(j, a)
    \/ \E w \in Workers : D_Step(w)
    \/ D_Crash("w1")

\* a worker thread that is alive goes on executing its loop, and time passes
SpecCR == InitCR /\ [][NextCR]_vars
          /\ WF_vars(Tick) /\ \A w \in Workers : WF_vars(D_Step(w))

-----------------------------------------------------------------------------
(* run_download_bot classifying the chapters of one work, for every value   *)
(* of the two thresholds that the environment can set                       *)

InitCL ==
    /\ InitCommon
    /\ upload = NoUpload
    /\ scroll = NoScroll
    /\ config = [service |-> "bot", maxticks |-> 0]
    /\ runtime = FALSE
    /\ flags = [download_running |-> "", download_stop_requested |-> "0"]
    /\ urls = NoUrls
    /\ fetch = NoFetch
    /\ crawl = NoCrawl
    /\ \E ok_min \in 0..MaxThreshold, partial_min \in 0..MaxThreshold :
         bot = [MIN_IMAGES_PER_CHAPTER |-> ok_min,
                MIN_IMAGES_PARTIAL |-> partial_min, meta |-> << >>]

\* one chapter: found_n = len(imgs); status = ...; meta.json is written
B_Chapter(found_n) ==
    /\ config.service = "bot"
    /\ Len(bot.meta) < MaxChapters
    /\ bot' = [bot EXCEPT !.meta = Append(@,
                  [status |-> chapter_status(found_n, bot.MIN_IMAGES_PER_CHAPTER,
                                             bot.MIN_IMAGES_PARTIAL),
                   found_images |-> found_n])]
    /\ UNCHANGED <<queues, upload, scroll, urls, fetch, crawl>>

NextCL == \E found_n \in 0..MaxImages : B_Chapter(found_n)

SpecCL == InitCL /\ [][NextCL]_vars

-----------------------------------------------------------------------------
(* normalize_url applied to two locators that differ only in the fragment   *)
(* and in tracking parameters                                               *)

RECURSIVE QueriesUpTo(_)
QueriesUpTo(n) ==
    IF n = 0 THEN {<< >>}
    ELSE QueriesUpTo(n - 1) \cup
         { Append(q, [k |-> k, v |-> v]) :
             q \in { q0 \in QueriesUpTo(n - 1) : Len(q0) = n - 1 },
             k \in OtherKeys, v \in QueryValues }

Locators ==
    [parses : BOOLEAN, scheme : Schemes, netloc : Netlocs, path : Paths,
     query : QueriesUpTo(MaxParams), fragment : Fragments]

InitNU ==
    /\ InitCommon
    /\ upload = NoUpload
    /\ scroll = NoScroll
    /\ config = [service |-> "normalize_url", maxticks |-> 0]
    /\ runtime = FALSE
    /\ flags = [download_running |-> "", download_stop_requested |-> "0"]
    /\ bot = NoBot
    /\ fetch = NoFetch
    /\ crawl = NoCrawl
    /\ \E a \in Locators : urls = [a |-> a, b |-> a, keys |-> << >>]

\* the tracking parameters written in a query
RECURSIVE TrackingIn(_)
TrackingIn(query) ==
    IF query = << >> THEN 0
    ELSE (IF is_tracking(unquote_plus(Head(query).k)) THEN 1 ELSE 0)
         + TrackingIn(Tail(query))

\* a page links to the same position with one more tracking parameter
N_AddTracking(i, k, v) ==
    /\ config.service = "normalize_url"
    /\ urls.keys = << >>
    /\ TrackingIn(urls.b.query) < MaxTracking
    /\ i \in 0..Len(urls.b.query)
    /\ urls' = [urls EXCEPT !.b.query =
                  SubSeq(@, 1, i) \o <<[k |-> k, v |-> v]>> \o SubSeq(@, i + 1, Len(@))]
    /\ UNCHANGED <<queues, upload, scroll, bot, fetch, crawl>>

\* ... or with another fragment
N_SetFragment(f) ==
    /\ config.service = "normalize_url"
    /\ urls.keys = << >>
    /\ urls.b.fragment # f
    /\ urls' = [urls EXCEPT !.b.fragment = f]
    /\ UNCHANGED <<queues, upload, scroll, bot, fetch, crawl>>

\* current_url_norm = normalize_url(current_url), for both locators
N_Normalize ==
    /\ config.service = "normalize_url"
    /\ urls.keys = << >>
    /\ urls' = [urls EXCEPT !.keys = <<normalize_url(urls.a), normalize_url(urls.b)>>]
    /\ UNCHANGED <<queues, upload, scroll, bot, fetch, crawl>>

NextNU ==
    \/ \E i \in 0..(MaxParams + MaxTracking), k \in TrackingKeys, v \in {"z"} :
         N_AddTracking(i, k, v)
    \/ \E f \in Fragments : N_SetFragment(f)
    \/ N_Normalize

SpecNU == InitNU /\ [][NextNU]_vars

-----------------------------------------------------------------------------
(* download/app.py : download_with_retry(url, filepath, cookies_dict,       *)
(* headers, max_retries). A file is NoFile or [size, of]: the first size     *)
(* chunks of a body of `of` chunks                                           *)

NoFile == << >>

\* the value of max_retries when the caller does not pass it
MAX_RETRIES == 3

\* what an attempt's requests.get can bring: it raises (connection error,
\* timeout, raise_for_status), or a response with a Content-Type and a body
\* of `body` chunks whose stream raises after `breaks` chunks (NULL: never)
Responses ==
    { [raises |-> TRUE, image |-> FALSE, body |-> 0, breaks |-> NULL] }
    \cup { [raises |-> FALSE, image |-> i, body |-> n, breaks |-> b] :
             i \in BOOLEAN, n \in 0..MaxChunks,
             b \in {NULL} \cup 0..(MaxChunks - 1) }

NoResponse == [raises |-> FALSE, image |-> FALSE, body |-> 0, breaks |-> NULL]

\* the call starts: the caller found no file at filepath; <filepath>.tmp may
\* be left over from a process that was killed while writing it
InitDR ==
    /\ InitCommon
    /\ upload = NoUpload
    /\ scroll = NoScroll
    /\ config = [service |-> "download_with_retry", maxticks |-> 0]
    /\ runtime = FALSE
    /\ flags = [download_running |-> "", download_stop_requested |-> "0"]
    /\ bot = NoBot
    /\ urls = NoUrls
    /\ crawl = NoCrawl
    /\ \E m \in 1..MaxRetries, t \in {NoFile, [size |-> 1, of |-> 2]} :
         fetch = [max_retries |-> m, attempt |-> 1, pc |-> "for",
                  response |-> NoResponse, total_size |-> 0,
                  tmp |-> t, dest |-> NoFile, result |-> "none",
                  gets |-> 0, sleeps |-> 0]

\* for attempt in range(1, max_retries + 1): response = requests.get(...);
\* response.raise_for_status()
F_Get(r) ==
    /\ config.service = "download_with_retry"
    /\ fetch.pc = "for"
    /\ fetch.attempt <= fetch.max_retries
    /\ r.breaks # NULL => r.breaks < r.body
    /\ fetch' = [fetch EXCEPT !.response = r, !.gets = @ + 1,
                              !.pc = IF r.raises THEN "except" ELSE "content_type"]
    /\ UNCHANGED <<queues, upload, scroll, bot, urls, crawl>>

\* if not content_type.startswith('image/'): raise ValueError
F_ContentType ==
    /\ config.service = "download_with_retry"
    /\ fetch.pc = "content_type"
    /\ fetch' = [fetch EXCEPT !.pc = IF fetch.response.image THEN "open" ELSE "except"]
    /\ UNCHANGED <<queues, upload, scroll, bot, urls, crawl>>

\* total_size = 0; with open(tmp_filepath, 'wb') as f:
F_Open ==
    /\ config.service = "download_with_retry"
    /\ fetch.pc = "open"
    /\ fetch' = [fetch EXCEPT !.tmp = [size |-> 0, of |-> fetch.response.body],
                              !.total_size = 0, !.pc = "iter_content"]
    /\ UNCHANGED <<queues, upload, scroll, bot, urls, crawl>>

\* for chunk in response.iter_content(...): f.write(chunk); total_size += len(chunk)
F_Chunk ==
    /\ config.service = "download_with_retry"
    /\ fetch.pc = "iter_content"
    /\ IF fetch.response.breaks = fetch.total_size
       THEN fetch' = [fetch EXCEPT !.pc = "except"]
       ELSE IF fetch.total_size < fetch.response.body
       THEN fetch' = [fetch EXCEPT !.tmp.size = @ + 1, !.total_size = @ + 1]
       ELSE fetch' = [fetch EXCEPT !.pc = "total_size"]
    /\ UNCHANGED <<queues, upload, scroll, bot, urls, crawl>>

\* if total_size == 0: raise ValueError("Arquivo vazio recebido")
F_TotalSize ==
    /\ config.service = "download_with_retry"
    /\ fetch.pc = "total_size"
    /\ fetch' = [fetch EXCEPT !.pc = IF fetch.total_size = 0 THEN "except" ELSE "rename"]
    /\ UNCHANGED <<queues, upload, scroll, bot, urls, crawl>>

\* os.rename(tmp_filepath, filepath); return True
F_Rename ==
    /\ config.service = "download_with_retry"
    /\ fetch.pc = "rename"
    /\ fetch' = [fetch EXCEPT !.dest = fetch.tmp, !.tmp = NoFile,
                              !.result = "True", !.pc = "returned"]
    /\ UNCHANGED <<queues, upload, scroll, bot, urls, crawl>>

\* variant: the except block without the removal of the temporary file
F_Except_keeps_tmp ==
    /\ config.service = "download_with_retry"
    /\ fetch.pc = "except"
    /\ fetch' = [fetch EXCEPT !.pc = IF fetch.attempt < fetch.max_retries
                                     THEN "sleep" ELSE "for",
                              !.attempt = IF fetch.attempt < fetch.max_retries
                                          THEN @ ELSE @ + 1]
    /\ UNCHANGED <<queues, upload, scroll, bot, urls, crawl>>

\* variant: the except block that sleeps after the last attempt too
F_Except_always_sleeps ==
    /\ config.service = "download_with_retry"
    /\ fetch.pc = "except"
    /\ fetch' = [fetch EXCEPT !.tmp = NoFile, !.pc = "sleep"]
    /\ UNCHANGED <<queues, upload, scroll, bot, urls, crawl>>

\* except Exception: if os.path.exists(tmp_filepath): os.remove(tmp_filepath);
\* if attempt < max_retries: (sleep) else: (log the failure)
F_Except ==
    /\ config.service = "download_with_retry"
    /\ fetch.pc = "except"
    /\ fetch' = [fetch EXCEPT !.tmp = NoFile,
                              !.pc = IF fetch.attempt < fetch.max_retries
                                     THEN "sleep" ELSE "for",
                              !.attempt = IF fetch.attempt < fetch.max_retries
                                          THEN @ ELSE @ + 1]
    /\ UNCHANGED <<queues, upload, scroll, bot, urls, crawl>>

\* time.sleep(wait_time), then the next attempt
F_Sleep ==
    /\ config.service = "download_with_retry"
    /\ fetch.pc = "sleep"
    /\ fetch' = [fetch EXCEPT !.sleeps = @ + 1, !.attempt = @ + 1, !.pc = "for"]
    /\ UNCHANGED <<queues, upload, scroll, bot, urls, crawl>>

\* the for loop is exhausted: return False
F_ReturnFalse ==
    /\ config.service = "download_with_retry"
    /\ fetch.pc = "for"
    /\ fetch.attempt > fetch.max_retries
    /\ fetch' = [fetch EXCEPT !.result = "False", !.pc = "returned"]
    /\ UNCHANGED <<queues, upload, scroll, bot, urls, crawl>>

NextDR ==
    \/ \E r \in Responses : F_Get(r)
    \/ F_ContentType
    \/ F_Open
    \/ F_Chunk
    \/ F_TotalSize
    \/ F_Rename
    \/ F_Except
    \/ F_Sleep
    \/ F_ReturnFalse

SpecDR == InitDR /\ [][NextDR]_vars

\* the thread that made the call goes on executing it
SpecDRFair == SpecDR /\ WF_vars(NextDR)

-----------------------------------------------------------------------------
(* download/app.py : run_download_bot(job), run by download_worker_loop for *)
(* one work, job after job. The site is a chain of chapters 1..n; the page   *)
(* of a chapter shows its images and a button "Próximo"                      *)

\* no locator: Python None, or a key that a dict does not hold
NoUrl == << >>

\* the progress file holds no entry for the work
NoCheckpoint == << >>

\* the locator of chapter p as the browser reports it (page.url); tracked:
\* with a tracking parameter and a fragment, as the site's own links have
PageLoc(p, tracked) ==
    [parses |-> TRUE, scheme |-> "https", netloc |-> "x",
     path |-> "/y/" \o ToString(p),
     query |-> IF tracked THEN <<[k |-> "utm_source", v |-> "1"]>> ELSE << >>,
     fragment |-> IF tracked THEN "frag" ELSE ""]

\* the url of the download job the operator enqueues for the work
InitialLocator == PageLoc(1, FALSE)

\* the sites: n chapters; the button of a chapter before the last leads to
\* the next chapter; the button of the last chapter is absent or disabled
\* (NoUrl), or leads to the last chapter again or back to an earlier one
Sites ==
    UNION { { [n |-> n, last_next |-> l] :
                l \in {NoUrl} \cup { PageLoc(q, t) : q \in 1..n, t \in BOOLEAN } } :
            n \in 1..MaxPages }

\* the chapter shown at a locator
PageOf(loc) == CHOOSE p \in 1..MaxPages : PageLoc(p, FALSE).path = loc.path

\* where the click on "Próximo" takes the browser from locator loc, NoUrl
\* when the page has no enabled button
NextOf(site, loc) ==
    IF PageOf(loc) < site.n THEN PageLoc(PageOf(loc) + 1, TRUE)
    ELSE site.last_next

\* the entry save_progress writes for the work; a key the caller leaves out
\* is "absent"
Checkpoint(ultimo_capitulo_url, capitulos_baixados, upload_enqueued, stopped_reason) ==
    [ultimo_capitulo_url |-> ultimo_capitulo_url,
     capitulos_baixados |-> capitulos_baixados,
     upload_enqueued |-> upload_enqueued,
     stopped_reason |-> stopped_reason]

\* Python's str(bool)
str(b) == IF b THEN "True" ELSE "False"

\* visited_urls as run_download_bot rebuilds it from capitulos_baixados
VisitedOf(capitulos_baixados) ==
    { normalize_url(capitulos_baixados[i].url) : i \in 1..Len(capitulos_baixados) }

\* the job ids of the download jobs of the work: the one the operator's
\* request carries and those of the rows enqueued after it
CrawlJobId(k) == "d" \o ToString(k)

\* run_download_bot has not returned
NoResult == [kind |-> "none", stopped_reason |-> "absent", resume_url |-> NoUrl]

\* the result of a run that left its loop: "Download concluído" unless
\* stop_reason is set, and then with the keys stopped_reason and resume_url
Summary(stop_reason, stop_url) ==
    IF stop_reason # "None"
    THEN [kind |-> "interrompido", stopped_reason |-> stop_reason,
          resume_url |-> stop_url]
    ELSE [kind |-> "concluido", stopped_reason |-> "absent", resume_url |-> NoUrl]

\* the worker is started on a work the operator has enqueued; nothing of it
\* has been downloaded
InitRB ==
    /\ InitCommon
    /\ upload = NoUpload
    /\ scroll = NoScroll
    /\ runtime = FALSE
    /\ flags = [download_running |-> "1", download_stop_requested |-> "0"]
    /\ bot = NoBot
    /\ urls = NoUrls
    /\ fetch = NoFetch
    /\ config = [service |-> "run_download_bot", maxticks |-> 0]
    /\ \E s \in Sites, e \in {0, MaxExpected}, b \in {0, 1, MaxBatch} :
         crawl = [site |-> s, expected_total |-> e, batch_size |-> b,
                  progress |-> NoCheckpoint,
                  jobno |-> 0, faults |-> 0, enqueues |-> 0,
                  pc |-> "idle", end |-> "none",
                  job |-> [job_id |-> "none", url |-> NoUrl,
                           expected_total |-> 0, batch_size |-> 0,
                           force_url |-> FALSE],
                  url |-> NoUrl, page_url |-> NoUrl, capitulo |-> 1,
                  capitulos_baixados |-> << >>, visited_urls |-> {},
                  upload_enqueued |-> FALSE, stop_reason |-> "None",
                  stop_url |-> NoUrl, result |-> NoResult,
                  status |-> "none", found_n |-> 0, batch_counter |-> 0]

\* variant: the numbering starts again at 1 in every run
first_capitulo_one(capitulos_baixados) == 1

\* capitulo = len(capitulos_baixados) + 1
first_capitulo(capitulos_baixados) == Len(capitulos_baixados) + 1

\* variant: the test of the expected total lets one more chapter through
expected_total_reached_late(expected_total, capitulo) ==
    expected_total > 0 /\ capitulo > expected_total + 1

\* expected_total > 0 and capitulo > expected_total
expected_total_reached(expected_total, capitulo) ==
    expected_total > 0 /\ capitulo > expected_total

\* variant: the batch is full one chapter later
batch_full_late(batch_size, batch_counter) ==
    batch_size > 0 /\ batch_counter > batch_size

\* batch_size > 0 and batch_counter >= batch_size
batch_full(batch_size, batch_counter) ==
    batch_size > 0 /\ batch_counter >= batch_size

\* the run of the current job is in progress
Crawling == crawl.pc \notin {"idle", "returned"}

\* what download_worker_loop does when run_download_bot has returned:
\* set_status(job_id, 'validating'), mark_done(job_id, result, summary)
worker_returns(tbl, ts, job_id, result) ==
    DownloadQueueStore_mark_done(
        DownloadQueueStore_set_status(tbl, ts, job_id, "validating", "validating"),
        ts, job_id, result, "ok")

\* the queued rows of table download_jobs
QueuedRows(tbl) == { r \in tbl : r.status = "queued" }

\* download_worker_loop claims the next download job of the work (the
\* continuation a batch enqueued, else a new request of the operator for the
\* initial locator with the same parameters), clears the stop request,
\* builds job, sets the row to downloading and calls run_download_bot, which
\* loads the progress of the work
R_Start ==
    /\ config.service = "run_download_bot"
    /\ ~Crawling
    /\ crawl.end # "end_of_content"
    /\ crawl.jobno < MaxJobs
    /\ flags' = [flags EXCEPT !.download_stop_requested = "0"]
    /\ LET tbl == IF QueuedRows(download_jobs) # {} THEN download_jobs
                  ELSE DownloadQueueStore_enqueue(
                           download_jobs, now, InitialLocator, "obraA", "/d/obraA",
                           crawl.expected_total, crawl.batch_size,
                           CrawlJobId(crawl.jobno + 1))
           job_row == CHOOSE r \in QueuedRows(tbl) : TRUE
           job == [job_id |-> job_row.job_id,
                   url |-> job_row.url,
                   expected_total |-> job_row.expected_total,
                   batch_size |-> job_row.batch_size,
                   force_url |-> FALSE]
           progress_data == crawl.progress
           ultimo_capitulo_url ==
               IF progress_data # NoCheckpoint
               THEN progress_data.ultimo_capitulo_url ELSE NoUrl
           capitulos_baixados ==
               IF progress_data # NoCheckpoint
               THEN progress_data.capitulos_baixados ELSE << >>
       IN /\ download_jobs' =
               DownloadQueueStore_set_status(
                   DownloadQueueStore_claim(tbl, now, "w1", job_row.job_id),
                   now, job_row.job_id, "downloading", "running")
          /\ crawl' = [crawl EXCEPT
              !.jobno = @ + 1, !.job = job,
              !.pc = "goto", !.end = "none",
              !.url = IF ultimo_capitulo_url # NoUrl /\ ~job.force_url
                      THEN ultimo_capitulo_url ELSE job.url,
              !.page_url = NoUrl,
              !.capitulos_baixados = capitulos_baixados,
              !.upload_enqueued = progress_data # NoCheckpoint
                                  /\ progress_data.upload_enqueued = "True",
              !.visited_urls = VisitedOf(capitulos_baixados),
              !.capitulo = first_capitulo(capitulos_baixados),
              !.stop_reason = "None", !.stop_url = NoUrl, !.result = NoResult,
              !.status = "none", !.found_n = 0,
              !.batch_counter = 0]
    /\ UNCHANGED <<now, ticks, config, jobs, runtime, pc, wjob,
                   last_reclaim, wlocal, claim_run, fail_log, bot, urls, fetch,
                   upload, scroll>>

\* page.goto(url)
R_Goto ==
    /\ config.service = "run_download_bot"
    /\ crawl.pc = "goto"
    /\ crawl' = [crawl EXCEPT !.page_url = crawl.url, !.pc = "while"]
    /\ UNCHANGED <<queues, upload, scroll, bot, urls, fetch>>

\* adicionar_fila_upload(obra_nome, job): the rows of table jobs after
\* QUEUE_STORE.enqueue(job_id, obra_nome, pasta, payload)
adicionar_fila_upload(tbl, ts, job) ==
    QueueStore_enqueue(tbl, ts, job.job_id, "obraA", "/d/obraA", "pA")

\* POST /api/stop, while a job of the work runs or while the worker is idle
R_Stop ==
    /\ config.service = "run_download_bot"
    /\ crawl.faults < MaxFaults
    /\ flags.download_stop_requested = "0"
    /\ flags' = [flags EXCEPT !.download_stop_requested = "1"]
    /\ crawl' = [crawl EXCEPT !.faults = @ + 1]
    /\ UNCHANGED <<now, ticks, config, jobs, runtime, download_jobs, pc, wjob,
                   last_reclaim, wlocal, claim_run, fail_log, bot, urls, fetch,
                   upload, scroll>>

\* POST /api/resume
R_Resume ==
    /\ config.service = "run_download_bot"
    /\ flags.download_stop_requested = "1"
    /\ flags' = [flags EXCEPT !.download_stop_requested = "0"]
    /\ UNCHANGED <<now, ticks, config, jobs, runtime, download_jobs, pc, wjob,
                   last_reclaim, wlocal, claim_run, fail_log, engine>>

\* variant: the stop request is never seen
_should_continue_ignores_flag == TRUE

\* _should_continue() in worker mode
_should_continue == flags.download_stop_requested # "1"

\* while _should_continue(): false, the loop ends
R_LoopExit ==
    /\ config.service = "run_download_bot"
    /\ crawl.pc = "while"
    /\ ~_should_continue
    /\ crawl' = [crawl EXCEPT !.pc = "after", !.end = "user_stop"]
    /\ UNCHANGED <<queues, upload, scroll, bot, urls, fetch>>

\* if expected_total > 0 and capitulo > expected_total: break
R_ExpectedTotal ==
    /\ config.service = "run_download_bot"
    /\ crawl.pc = "while"
    /\ _should_continue
    /\ expected_total_reached(crawl.job.expected_total, crawl.capitulo)
    /\ crawl' = [crawl EXCEPT !.stop_reason = "expected_total_reached",
                              !.stop_url = crawl.page_url,
                              !.pc = "after", !.end = "expected_total_reached"]
    /\ UNCHANGED <<queues, upload, scroll, bot, urls, fetch>>

\* variant: the guard compares the locator as the browser reports it
url_repetida_raw(current_url, visited_urls) == current_url \in visited_urls

\* the test of the duplicate guard
url_repetida(current_url, visited_urls) == normalize_url(current_url) \in visited_urls

\* if current_url_norm in visited_urls: save_progress, break
R_Duplicate ==
    /\ config.service = "run_download_bot"
    /\ crawl.pc = "while"
    /\ _should_continue
    /\ ~expected_total_reached(crawl.job.expected_total, crawl.capitulo)
    /\ url_repetida(crawl.page_url, crawl.visited_urls)
    /\ crawl' = [crawl EXCEPT
                   !.stop_reason = "url_repetida",
                   !.stop_url = crawl.page_url,
                   !.progress = Checkpoint(crawl.page_url, crawl.capitulos_baixados,
                                           "absent", "url_repetida"),
                   !.pc = "after", !.end = "url_repetida"]
    /\ UNCHANGED <<queues, upload, scroll, bot, urls, fetch>>

\* visited_urls.add(current_url_norm); the images of the page are extracted
\* and the chapter is classified
R_Extract(found_n) ==
    /\ config.service = "run_download_bot"
    /\ crawl.pc = "while"
    /\ _should_continue
    /\ ~expected_total_reached(crawl.job.expected_total, crawl.capitulo)
    /\ ~url_repetida(crawl.page_url, crawl.visited_urls)
    /\ crawl' = [crawl EXCEPT
                   !.visited_urls = @ \cup {normalize_url(crawl.page_url)},
                   !.found_n = found_n,
                   !.status = chapter_status(found_n, DefaultMinImagesPerChapter,
                                             DefaultMinImagesPartial),
                   !.pc = "images"]
    /\ UNCHANGED <<queues, upload, scroll, bot, urls, fetch>>

\* if status == 'broken' and is_probably_blocked(page): the blocked chapter
\* is recorded, save_progress, break
R_Blocked ==
    /\ config.service = "run_download_bot"
    /\ crawl.pc = "images"
    /\ crawl.status = "broken"
    /\ crawl.faults < MaxFaults
    /\ LET capitulos_baixados ==
               Append(crawl.capitulos_baixados,
                      [numero |-> crawl.capitulo, url |-> crawl.page_url,
                       status |-> "blocked"])
       IN crawl' = [crawl EXCEPT
                      !.faults = @ + 1,
                      !.stop_reason = "blocked",
                      !.stop_url = crawl.page_url,
                      !.capitulos_baixados = capitulos_baixados,
                      !.visited_urls = @ \cup {normalize_url(crawl.page_url)},
                      !.progress = Checkpoint(crawl.page_url, capitulos_baixados,
                                              "absent", "absent"),
                      !.pc = "after", !.end = "blocked"]
    /\ UNCHANGED <<queues, upload, scroll, bot, urls, fetch>>

\* for idx, img_url in enumerate(imgs): the images are downloaded; a stop
\* request seen before an image saves the progress and leaves the for loop
R_Images ==
    /\ config.service = "run_download_bot"
    /\ crawl.pc = "images"
    /\ crawl' = [crawl EXCEPT
                   !.progress = IF crawl.found_n > 0 /\ ~_should_continue
                                THEN Checkpoint(crawl.page_url, crawl.capitulos_baixados,
                                                "absent", "absent")
                                ELSE @,
                   !.pc = "append"]
    /\ UNCHANGED <<queues, upload, scroll, bot, urls, fetch>>

\* capitulos_baixados.append(...) "sempre"; if not _should_continue(): break
R_Append ==
    /\ config.service = "run_download_bot"
    /\ crawl.pc = "append"
    /\ crawl' = [crawl EXCEPT
                   !.capitulos_baixados =
                       Append(@, [numero |-> crawl.capitulo, url |-> crawl.page_url,
                                  status |-> crawl.status]),
                   !.visited_urls = @ \cup {normalize_url(crawl.page_url)},
                   !.pc = IF _should_continue THEN "advance" ELSE "after",
                   !.end = IF _should_continue THEN @ ELSE "user_stop"]
    /\ UNCHANGED <<queues, upload, scroll, bot, urls, fetch>>

\* the click on "Próximo" or the reading of page.url raises: except
\* Exception: break
R_AdvanceException ==
    /\ config.service = "run_download_bot"
    /\ crawl.pc = "advance"
    /\ crawl.faults < MaxFaults
    /\ crawl' = [crawl EXCEPT !.faults = @ + 1, !.pc = "after",
                              !.end = "advance_exception"]
    /\ UNCHANGED <<queues, upload, scroll, bot, urls, fetch>>

\* has_next is false, "Fim da obra!": clear_progress(obra_nome), break
R_EndOfContent ==
    /\ config.service = "run_download_bot"
    /\ crawl.pc = "advance"
    /\ NextOf(crawl.site, crawl.page_url) = NoUrl
    /\ crawl' = [crawl EXCEPT !.progress = NoCheckpoint, !.pc = "after",
                              !.end = "end_of_content"]
    /\ UNCHANGED <<queues, upload, scroll, bot, urls, fetch>>

\* variant: the test without the set of visited locators
next_nao_avancou_prev_only(new_url, prev_url_norm, visited_urls) ==
    normalize_url(new_url) = prev_url_norm

\* the test made on the locator the browser shows after the click
next_nao_avancou(new_url, prev_url_norm, visited_urls) ==
    \/ normalize_url(new_url) = prev_url_norm
    \/ normalize_url(new_url) \in visited_urls

\* what save_progress writes when the click did not advance
save_next_nao_avancou(new_url, current_url, capitulos_baixados) ==
    Checkpoint(new_url, capitulos_baixados, "absent", "next_nao_avancou")

\* if new_url_norm == prev_url_norm or new_url_norm in visited_urls:
\* save_progress, break
R_NoProgress ==
    /\ config.service = "run_download_bot"
    /\ crawl.pc = "advance"
    /\ LET new_url == NextOf(crawl.site, crawl.page_url)
       IN /\ new_url # NoUrl
          /\ next_nao_avancou(new_url, normalize_url(crawl.page_url), crawl.visited_urls)
          /\ crawl' = [crawl EXCEPT
                         !.page_url = new_url,
                         !.stop_reason = "next_nao_avancou",
                         !.stop_url = new_url,
                         !.progress = save_next_nao_avancou(new_url, crawl.page_url,
                                                            crawl.capitulos_baixados),
                         !.pc = "after", !.end = "next_nao_avancou"]
    /\ UNCHANGED <<queues, upload, scroll, bot, urls, fetch>>

\* the click advanced: save_progress; the upload job is enqueued unless
\* upload_enqueued; capitulo += 1; batch_counter += 1 and, when the batch is
\* full, the continuation is enqueued and the run returns
R_Advance ==
    /\ config.service = "run_download_bot"
    /\ crawl.pc = "advance"
    /\ LET new_url == NextOf(crawl.site, crawl.page_url)
           enqueue == ~crawl.upload_enqueued /\ Len(crawl.capitulos_baixados) >= 1
           batch == batch_full(crawl.job.batch_size, crawl.batch_counter + 1)
       IN /\ new_url # NoUrl
          /\ ~next_nao_avancou(new_url, normalize_url(crawl.page_url), crawl.visited_urls)
          /\ jobs' = IF enqueue THEN adicionar_fila_upload(jobs, now, crawl.job)
                     ELSE jobs
          /\ download_jobs' =
               IF batch
               THEN worker_returns(
                        DownloadQueueStore_enqueue(
                            download_jobs, now, new_url, "obraA", "/d/obraA",
                            crawl.job.expected_total, crawl.job.batch_size,
                            CrawlJobId(crawl.jobno + 1)),
                        now, crawl.job.job_id, "success")
               ELSE download_jobs
          /\ crawl' = [crawl EXCEPT
                         !.page_url = new_url,
                         !.upload_enqueued = @ \/ enqueue,
                         !.enqueues = IF enqueue THEN @ + 1 ELSE @,
                         !.progress = Checkpoint(new_url, crawl.capitulos_baixados,
                                                 str(crawl.upload_enqueued \/ enqueue),
                                                 "absent"),
                         !.capitulo = @ + 1,
                         !.batch_counter = @ + 1,
                         !.stop_reason = IF batch THEN "batch_requeued" ELSE @,
                         !.stop_url = IF batch THEN new_url ELSE @,
                         !.result = IF batch
                                    THEN [kind |-> "stopped",
                                          stopped_reason |-> "batch_requeued",
                                          resume_url |-> new_url]
                                    ELSE @,
                         !.pc = IF batch THEN "returned" ELSE "while",
                         !.end = IF batch THEN "batch_requeued" ELSE @]
    /\ UNCHANGED <<now, ticks, config, runtime, flags, pc, wjob,
                   last_reclaim, wlocal, claim_run, fail_log, bot, urls, fetch,
                   upload, scroll>>

\* after the loop: if stop_reason: the run was interrupted; else "Download
\* concluído" and adicionar_fila_upload(obra_nome, job); the run returns
R_Finish ==
    /\ config.service = "run_download_bot"
    /\ crawl.pc = "after"
    /\ jobs' = IF crawl.stop_reason = "None"
               THEN adicionar_fila_upload(jobs, now, crawl.job) ELSE jobs
    /\ download_jobs' = worker_returns(download_jobs, now, crawl.job.job_id, "success")
    /\ crawl' = [crawl EXCEPT
                   !.enqueues = IF crawl.stop_reason = "None" THEN @ + 1 ELSE @,
                   !.result = Summary(crawl.stop_reason, crawl.stop_url),
                   !.pc = "returned"]
    /\ UNCHANGED <<now, ticks, config, runtime, flags, pc, wjob,
                   last_reclaim, wlocal, claim_run, fail_log, bot, urls, fetch,
                   upload, scroll>>

\* page.goto, the creation of the chapter's folder or the scroll before the
\* click raises: except Exception of the whole run: if capitulos_baixados:
\* save_progress with the locator the run started at
R_Fatal ==
    /\ config.service = "run_download_bot"
    /\ crawl.pc \in {"goto", "images", "advance"}
    /\ crawl.faults < MaxFaults
    /\ download_jobs' = worker_returns(download_jobs, now, crawl.job.job_id, "error")
    /\ crawl' = [crawl EXCEPT
                   !.faults = @ + 1,
                   !.progress = IF crawl.capitulos_baixados # << >>
                                THEN Checkpoint(crawl.url, crawl.capitulos_baixados,
                                                "absent", "absent")
                                ELSE @,
                   !.result = [kind |-> "error", stopped_reason |-> "absent",
                               resume_url |-> NoUrl],
                   !.pc = "returned", !.end = "fatal"]
    /\ UNCHANGED <<now, ticks, config, jobs, runtime, flags, pc, wjob,
                   last_reclaim, wlocal, claim_run, fail_log, bot, urls, fetch,
                   upload, scroll>>

NextRB ==
    \/ R_Resume
    \/ R_Start
    \/ R_Goto
    \/ R_Stop
    \/ R_LoopExit
    \/ R_ExpectedTotal
    \/ R_Duplicate
    \/ \E found_n \in {0, DefaultMinImagesPerChapter} : R_Extract(found_n)
    \/ R_Blocked
    \/ R_Images
    \/ R_Append
    \/ R_AdvanceException
    \/ R_EndOfContent
    \/ R_NoProgress
    \/ R_Advance
    \/ R_Finish
    \/ R_Fatal

SpecRB == InitRB /\ [][NextRB]_vars

-----------------------------------------------------------------------------
(* download/app.py : save_progress and clear_progress on progress.json, the  *)
(* one document that holds the checkpoint of every work, called by two       *)
(* download worker processes that each run the job of a different work       *)

\* the works and the worker process that runs the job of each
Obras == {"obraA", "obraB"}
ObraOf(p) == IF p = "w1" THEN "obraA" ELSE "obraB"

\* PROGRESS_FILE: missing, just truncated by open(.., 'w'), or a JSON document
\* (a set of entries obra -> data)
FileMissing == [state |-> "missing", doc |-> {}]
FileEmpty == [state |-> "empty", doc |-> {}]
FileJson(doc) == [state |-> "json", doc |-> doc]

\* all_progress[obra_nome] = progress_data
doc_set(all_progress, obra_nome, progress_data) ==
    { e \in all_progress : e.obra # obra_nome }
        \cup {[obra |-> obra_nome, data |-> progress_data]}

\* if obra_nome in all_progress: del all_progress[obra_nome]
doc_del(all_progress, obra_nome) == { e \in all_progress : e.obra # obra_nome }

\* all_progress.get(obra_nome, {}) of load_progress; 0 stands for {}
doc_get(file, obra_nome) ==
    IF file.state = "json" /\ \E e \in file.doc : e.obra = obra_nome
    THEN (CHOOSE e \in file.doc : e.obra = obra_nome).data
    ELSE 0

\* a worker process outside save_progress and clear_progress
PGIdle == [pc |-> "idle", op |-> "", data |-> 0, all_progress |-> {}]

InitPG ==
    /\ InitCommon
    /\ upload = NoUpload
    /\ scroll = NoScroll
    /\ config = [service |-> "progress", maxticks |-> 0]
    /\ runtime = FALSE
    /\ flags = [download_running |-> "1", download_stop_requested |-> "0"]
    /\ bot = NoBot
    /\ urls = NoUrls
    /\ fetch = NoFetch
    /\ \E f \in {FileMissing, FileJson({})} :
         crawl = [file |-> f,
                  proc |-> [p \in Workers |-> PGIdle],
                  calls |-> [p \in Workers |-> 0],
                  kept |-> [o \in Obras |-> 0]]

\* run_download_bot of process p calls save_progress(obra_nome, progress_data)
\* (the data of its k-th call is k) or clear_progress(obra_nome)
PG_Call(p, op) ==
    /\ config.service = "progress"
    /\ crawl.proc[p].pc = "idle"
    /\ crawl.calls[p] < MaxCalls
    /\ crawl' = [crawl EXCEPT
                   !.calls[p] = @ + 1,
                   !.proc[p] = [pc |-> "read", op |-> op,
                                data |-> IF op = "save" THEN crawl.calls[p] + 1
                                         ELSE 0,
                                all_progress |-> {}]]
    /\ UNCHANGED <<queues, upload, scroll, bot, urls, fetch>>

\* if PROGRESS_FILE.exists(): all_progress = json.load(f); then the change of
\* the own entry in memory. json.load of a file another process has just
\* truncated raises, the except clause prints and the call returns;
\* clear_progress returns at once when the file does not exist
PG_Read(p) ==
    /\ config.service = "progress"
    /\ crawl.proc[p].pc = "read"
    /\ LET me == crawl.proc[p]
           returns == \/ crawl.file.state = "empty"
                      \/ me.op = "clear" /\ crawl.file.state = "missing"
           loaded == IF crawl.file.state = "json" THEN crawl.file.doc ELSE {}
       IN IF returns
          THEN crawl' = [crawl EXCEPT !.proc[p] = PGIdle,
                                      !.kept[ObraOf(p)] = me.data]
          ELSE crawl' = [crawl EXCEPT
                           !.proc[p].pc = "open",
                           !.proc[p].all_progress =
                               IF me.op = "save"
                               THEN doc_set(loaded, ObraOf(p), me.data)
                               ELSE doc_del(loaded, ObraOf(p))]
    /\ UNCHANGED <<queues, upload, scroll, bot, urls, fetch>>

\* with open(PROGRESS_FILE, 'w', encoding='utf-8') as f: the file is truncated
PG_Open(p) ==
    /\ config.service = "progress"
    /\ crawl.proc[p].pc = "open"
    /\ crawl' = [crawl EXCEPT !.file = FileEmpty, !.proc[p].pc = "dump"]
    /\ UNCHANGED <<queues, upload, scroll, bot, urls, fetch>>

\* json.dump(all_progress, f, ...); the call returns
PG_Dump(p) ==
    /\ config.service = "progress"
    /\ crawl.proc[p].pc = "dump"
    /\ crawl' = [crawl EXCEPT !.file = FileJson(crawl.proc[p].all_progress),
                              !.proc[p] = PGIdle,
                              !.kept[ObraOf(p)] = crawl.proc[p].data]
    /\ UNCHANGED <<queues, upload, scroll, bot, urls, fetch>>

NextPG ==
    \E p \in Workers :
        \/ \E op \in {"save", "clear"} : PG_Call(p, op)
        \/ PG_Read(p)
        \/ PG_Open(p)
        \/ PG_Dump(p)

SpecPG == InitPG /\ [][NextPG]_vars

-----------------------------------------------------------------------------

(* upload/worker.py and upload/app.py : one upload worker process running    *)
(* fila_watcher and upload_obra, and the API process serving /api/start and  *)
(* /api/stop. Each process has its own module global bot_status              *)

\* bot_status as the module defines it when a process imports upload.app
bot_status_running == FALSE

\* worker.py main has ensured the flag upload_running; the queue holds the
\* upload jobs of works with the same number of chapter folders
InitUO ==
    /\ now = T0
    /\ ticks = 0
    /\ config = [service |-> "upload_obra", maxticks |-> 0]
    /\ jobs = QueueStore_enqueue(
                  QueueStore_enqueue({}, T0, "j1", "obraA", "/d/obraA", "pA"),
                  T0, "j2", "obraB", "/d/obraB", "pB")
    /\ runtime = FALSE
    /\ download_jobs = {}
    /\ flags = [download_running |-> "", download_stop_requested |-> "0"]
    /\ pc = [w \in Workers |-> IF w = "w1" THEN "flag" ELSE "loop"]
    /\ wjob = [w \in Workers |-> NoJob]
    /\ last_reclaim = [w \in Workers |-> 0]
    /\ wlocal = [w \in Workers |-> NoLocals]
    /\ claim_run = NoClaims
    /\ fail_log = NoFails
    /\ bot = NoBot
    /\ urls = NoUrls
    /\ fetch = NoFetch
    /\ crawl = NoCrawl
    /\ scroll = NoScroll
    /\ \E n \in 0..MaxFolders :
         upload = [cap_folders |-> n, next |-> 1, visited |-> 0,
                   api_running |-> bot_status_running,
                   worker_running |-> bot_status_running,
                   interrupted |-> FALSE, stopped |-> FALSE]

\* POST /api/start: refused when bot_status['running'] of the API process is
\* set; else sets it and set_runtime('upload_running', True)
UO_StartUpload ==
    /\ config.service = "upload_obra"
    /\ ~upload.api_running
    /\ upload' = [upload EXCEPT !.api_running = TRUE]
    /\ runtime' = TRUE
    /\ UNCHANGED <<now, ticks, config, jobs, download_jobs, flags, pc, wjob,
                   last_reclaim, wlocal, claim_run, fail_log, bot, urls, fetch,
                   crawl, scroll>>

\* POST /api/stop: clears bot_status['running'] of the API process and
\* set_runtime('upload_running', False)
UO_StopUpload ==
    /\ config.service = "upload_obra"
    /\ upload.api_running
    /\ upload' = [upload EXCEPT !.api_running = FALSE, !.stopped = TRUE]
    /\ runtime' = FALSE
    /\ UNCHANGED <<now, ticks, config, jobs, download_jobs, flags, pc, wjob,
                   last_reclaim, wlocal, claim_run, fail_log, bot, urls, fetch,
                   crawl, scroll>>

\* running = bool(get_runtime('upload_running', False)); if not running:
\* sleep, continue
UO_CheckFlag ==
    /\ config.service = "upload_obra"
    /\ pc["w1"] = "flag"
    /\ runtime
    /\ pc' = [pc EXCEPT !["w1"] = "claim"]
    /\ UNCHANGED <<now, ticks, config, jobs, runtime, download_jobs, flags,
                   wjob, last_reclaim, wlocal, claim_run, fail_log, engine>>

\* job = claim_next(worker_id=wid); upload_obra(obra_info) up to
\* cap_folders = sorted(...)
UO_Claim ==
    /\ config.service = "upload_obra"
    /\ pc["w1"] = "claim"
    /\ IF QueueStore_oldest(jobs, now) = {}
       THEN /\ pc' = [pc EXCEPT !["w1"] = "flag"]
            /\ UNCHANGED <<jobs, wjob, upload>>
       ELSE \E r \in QueueStore_oldest(jobs, now) :
            /\ jobs' = QueueStore_claim(jobs, now, "w1", r.id)
            /\ wjob' = [wjob EXCEPT !["w1"] = r.id]
            /\ pc' = [pc EXCEPT !["w1"] = "for"]
            /\ upload' = [upload EXCEPT !.next = 1, !.visited = 0,
                                        !.interrupted = FALSE,
                                        !.stopped = ~runtime]
    /\ UNCHANGED <<now, ticks, config, runtime, download_jobs, flags,
                   last_reclaim, wlocal, claim_run, fail_log, bot, urls, fetch,
                   crawl, scroll>>

\* for cap_folder in cap_folders: if not bot_status['running']: break; else
\* the chapter folder is handled (uploaded, skipped or registered as broken).
\* After the loop: return True
UO_Chapter ==
    /\ config.service = "upload_obra"
    /\ pc["w1"] = "for"
    /\ IF upload.next > upload.cap_folders
       THEN /\ wlocal' = [wlocal EXCEPT !["w1"].sucesso = TRUE]
            /\ pc' = [pc EXCEPT !["w1"] = "report"]
            /\ UNCHANGED upload
       ELSE IF ~upload.worker_running
       THEN /\ upload' = [upload EXCEPT !.interrupted = TRUE]
            /\ wlocal' = [wlocal EXCEPT !["w1"].sucesso = TRUE]
            /\ pc' = [pc EXCEPT !["w1"] = "report"]
       ELSE /\ upload' = [upload EXCEPT !.next = @ + 1, !.visited = @ + 1]
            /\ UNCHANGED <<wlocal, pc>>
    /\ UNCHANGED <<now, ticks, config, jobs, runtime, download_jobs, flags,
                   wjob, last_reclaim, claim_run, fail_log, bot, urls, fetch,
                   crawl, scroll>>

\* except Exception in upload_obra: return False
UO_Critical ==
    /\ config.service = "upload_obra"
    /\ pc["w1"] = "for"
    /\ wlocal' = [wlocal EXCEPT !["w1"].sucesso = FALSE]
    /\ pc' = [pc EXCEPT !["w1"] = "report"]
    /\ UNCHANGED <<now, ticks, config, jobs, runtime, download_jobs, flags,
                   wjob, last_reclaim, claim_run, fail_log, engine>>

\* if sucesso: mark_done(job.id) else: mark_failed(job.id, 'Falha no upload',
\* requeue=True, max_tries=5)
UO_Report ==
    /\ config.service = "upload_obra"
    /\ pc["w1"] = "report"
    /\ jobs' = IF wlocal["w1"].sucesso
               THEN QueueStore_mark_done(jobs, now, wjob["w1"])
               ELSE QueueStore_mark_failed(jobs, now, wjob["w1"],
                                           "Falha no upload", TRUE, 5)
    /\ pc' = [pc EXCEPT !["w1"] = "flag"]
    /\ UNCHANGED <<now, ticks, config, runtime, download_jobs, flags,
                   wjob, last_reclaim, wlocal, claim_run, fail_log, engine>>

NextUO ==
    \/ UO_StartUpload
    \/ UO_StopUpload
    \/ UO_CheckFlag
    \/ UO_Claim
    \/ UO_Chapter
    \/ UO_Critical
    \/ UO_Report

SpecUO == InitUO /\ [][NextUO]_vars

-----------------------------------------------------------------------------

(* The run flags: one worker of either service polls a queue that holds two  *)
(* queued jobs while the operator turns the run flag of the service off and  *)
(* on (upload_running through /api/start and /api/stop, download_running     *)
(* through DownloadQueueStore.set_flag)                                      *)

Gating(service) ==
    [service |-> service, workers |-> {"w1"}, jobids |-> {"j1", "j2"},
     nargs |-> 2, maxticks |-> GateTicks, maxtries |-> GateTries,
     stops |-> TRUE, crashes |-> FALSE]

InitG ==
    /\ now = T0
    /\ ticks = 0
    /\ pc = [w \in Workers |-> "loop"]
    /\ wjob = [w \in Workers |-> NoJob]
    /\ last_reclaim = [w \in Workers |-> 0]
    /\ wlocal = [w \in Workers |-> NoLocals]
    /\ claim_run = NoClaims
    /\ fail_log = NoFails
    /\ EngineIdle
    /\ runtime = FALSE
    /\ \/ /\ config = Gating("upload")
          /\ flags = [download_running |-> "", download_stop_requested |-> "0"]
          /\ jobs = QueueStore_enqueue(
                        QueueStore_enqueue({}, T0, "j1", "obraA", "/d/obraA", "pA"),
                        T0, "j2", "obraB", "/d/obraB", "pB")
          /\ download_jobs = {}
       \/ /\ config = Gating("download")
          /\ flags = [download_running |-> "1", download_stop_requested |-> "0"]
          /\ jobs = {}
          /\ download_jobs =
               DownloadQueueStore_enqueue(
                   DownloadQueueStore_enqueue({}, T0, "u/a/1", "obraA", "/d/obraA",
                                              0, 0, "j1"),
                   T0, "u/b/1", "obraB", "/d/obraB", 5, 2, "j2")

\* DownloadQueueStore.set_flag('download_running', v) by a process that
\* shares the store
G_SetFlag(v) ==
    /\ config = Gating("download")
    /\ flags.download_running # v
    /\ flags' = [flags EXCEPT !.download_running = v]
    /\ UNCHANGED <<now, ticks, config, jobs, runtime, download_jobs,
                   pc, wjob, last_reclaim, wlocal, claim_run, fail_log, engine>>

NextG ==
    \/ Tick
    \/ \E v \in BOOLEAN : U_SetRunning(v)
    \/ U_LoopTop("w1")
    \/ U_CheckFlag("w1")
    \/ U_Claim("w1")
    \/ U_Heartbeat("w1")
    \/ \E ok \in BOOLEAN : U_UploadReturns("w1", ok)
    \/ U_Report("w1")
    \/ \E v \in {"0", "1"} : G_SetFlag(v)
    \/ D_LoopTop("w1")
    \/ D_CheckFlag("w1")
    \/ D_Claim("w1")
    \/ D_ClearStop("w1")
    \/ D_SetDownloading("w1")
    \/ \E a \in ProgressArgs : D_Heartbeat("w1", a)
    \/ \E res \in Results : D_BotReturns("w1", res)
    \/ D_SetValidating("w1")
    \/ D_MarkDone("w1")

\* the worker keeps polling: its loop goes on executing every statement, and
\* upload_obra and run_download_bot return
FairG ==
    /\ WF_vars(U_LoopTop("w1"))
    /\ WF_vars(U_CheckFlag("w1"))
    /\ WF_vars(U_Claim("w1"))
    /\ WF_vars(\E ok \in BOOLEAN : U_UploadReturns("w1", ok))
    /\ WF_vars(U_Report("w1"))
    /\ WF_vars(D_LoopTop("w1"))
    /\ WF_vars(D_CheckFlag("w1"))
    /\ WF_vars(D_Claim("w1"))
    /\ WF_vars(D_ClearStop("w1"))
    /\ WF_vars(D_SetDownloading("w1"))
    /\ WF_vars(\E res \in Results : D_BotReturns("w1", res))
    /\ WF_vars(D_SetValidating("w1"))
    /\ WF_vars(D_MarkDone("w1"))

SpecG == InitG /\ [][NextG]_vars /\ FairG

-----------------------------------------------------------------------------

(* download/app.py : scroll_until_stable(page, container_selectors,          *)
(* max_cycles, stable_cycles), one call. The page reports in every cycle a   *)
(* number of wrappers and of images (0 and 0 when page.evaluate raises)      *)

\* the counts of the cycles so far are the sequence scroll.seen
InitSC ==
    /\ InitCommon
    /\ config = [service |-> "scroll_until_stable", maxticks |-> 0]
    /\ runtime = FALSE
    /\ flags = [download_running |-> "", download_stop_requested |-> "0"]
    /\ bot = NoBot
    /\ urls = NoUrls
    /\ fetch = NoFetch
    /\ crawl = NoCrawl
    /\ upload = NoUpload
    /\ \E m \in 0..MaxCycles, s \in 0..MaxStable :
         scroll = [max_cycles |-> m, stable_cycles |-> s, pc |-> "for",
                   last_wrappers |-> -1, last_imgs |-> -1, stable |-> 0,
                   cycles |-> 0, broke |-> FALSE, seen |-> << >>]

\* variant: the loop also stops while the page shows nothing
should_break_on_empty(stable, stable_cycles, wrappers, imgs) ==
    stable >= stable_cycles

\* if stable >= int(stable_cycles) and (wrappers > 0 or imgs > 0): break
should_break(stable, stable_cycles, wrappers, imgs) ==
    stable >= stable_cycles /\ (wrappers > 0 \/ imgs > 0)

\* one iteration of for i in range(int(max_cycles))
S_Cycle(wrappers, imgs) ==
    /\ config.service = "scroll_until_stable"
    /\ scroll.pc = "for"
    /\ scroll.cycles < scroll.max_cycles
    /\ LET grew == wrappers > scroll.last_wrappers \/ imgs > scroll.last_imgs
           stable == IF grew THEN 0 ELSE scroll.stable + 1
           break == should_break(stable, scroll.stable_cycles, wrappers, imgs)
       IN scroll' = [scroll EXCEPT
                       !.cycles = @ + 1,
                       !.stable = stable,
                       !.last_wrappers = IF grew THEN Max(@, wrappers) ELSE @,
                       !.last_imgs = IF grew THEN Max(@, imgs) ELSE @,
                       !.seen = Append(@, [wrappers |-> wrappers, imgs |-> imgs]),
                       !.broke = break,
                       !.pc = IF break THEN "returned" ELSE "for"]
    /\ UNCHANGED <<queues, bot, urls, fetch, crawl, upload>>

\* range(int(max_cycles)) is exhausted: return last_stats
S_Return ==
    /\ config.service = "scroll_until_stable"
    /\ scroll.pc = "for"
    /\ scroll.cycles >= scroll.max_cycles
    /\ scroll' = [scroll EXCEPT !.pc = "returned"]
    /\ UNCHANGED <<queues, bot, urls, fetch, crawl, upload>>

NextSC ==
    \/ \E wrappers \in 0..MaxCount, imgs \in 0..MaxCount : S_Cycle(wrappers, imgs)
    \/ S_Return

SpecSC == InitSC /\ [][NextSC]_vars

-----------------------------------------------------------------------------

(* Properties *)

\* worker w is executing job j: it holds what claim_next returned and has not
\* yet reported the outcome
UExecuting(w, j) ==
    /\ config.service = "upload"
    /\ pc[w] \in {"work", "report"}
    /\ wjob[w] = j

DExecuting(w, j) ==
    /\ config.service = "download"
    /\ \/ pc[w] = "clear_stop" /\ wlocal[w].job_row = j
       \/ pc[w] \in DHoldPcs \ {"clear_stop"} /\ wjob[w] = j

\* C1: for every job id and every interleaving of enqueue, claim_next,
\* heartbeat, reclaim, mark_done and mark_failed by any number of workers,
\* at most one worker process is executing the job at any instant
C1_AtMostOneExecutor ==
    \A j \in JobIds : \A w1 \in Workers : \A w2 \in Workers \ {w1} :
        /\ ~(UExecuting(w1, j) /\ UExecuting(w2, j))
        /\ ~(DExecuting(w1, j) /\ DExecuting(w2, j))

\* C2: concurrent claim_next calls, with no reclaim or re-enqueue (and no
\* other write or clock advance) between them, never return the same job to
\* two callers: one caller gets the job, the other gets a different job or
\* None
C2_NoDoubleClaim ==
    \A j \in JobIds : Cardinality(claim_run.got[j]) <= 1

\* two workers raced for the only eligible job: one got it, the other None
C2_Witness ==
    \E w1 \in Workers : \E w2 \in Workers \ {w1} :
      \E j \in JobIds :
        /\ claim_run.got[j] = {w1}
        /\ w2 \in claim_run.none
        /\ UExecuting(w1, j) \/ DExecuting(w1, j)
        /\ pc[w2] = "loop"

\* a claim_next call of worker w returns in this step
UClaimReturns(w) ==
    config.service = "upload" /\ pc[w] = "claim" /\ pc'[w] \in {"work", "loop"}

DClaimReturns(w) ==
    config.service = "download" /\ pc[w] = "claim" /\ pc'[w] \in {"clear_stop", "loop"}

\* what C3 says of a QueueStore.claim_next call by w
C3_Upload(w) ==
    LET E == { r \in jobs : r.status = "queued"
                             /\ (r.available_at = NULL \/ r.available_at <= now) }
    IN  IF E = {}
        THEN pc'[w] = "loop" /\ jobs' = jobs
        ELSE /\ pc'[w] = "work"
             /\ \E r \in E :
                  /\ wjob'[w] = r.id
                  /\ \A q \in E : r.created_at <= q.created_at
                  /\ \E q \in jobs' :
                       /\ q.id = r.id
                       /\ q.status = "processing"
                       /\ q.worker_id = w
                       /\ q.processing_started_at = now
                       /\ q.heartbeat_at = now

\* what C3 says of a DownloadQueueStore.claim_next call by w
C3_Download(w) ==
    LET E == { r \in download_jobs : r.status = "queued" /\ r.available_at <= now }
    IN  IF E = {}
        THEN pc'[w] = "loop" /\ download_jobs' = download_jobs
        ELSE /\ pc'[w] = "clear_stop"
             /\ \E r \in E :
                  /\ wlocal'[w].job_row = r.job_id
                  /\ \A q \in E : r.created_at <= q.created_at
                  /\ \E q \in download_jobs' :
                       /\ q.job_id = r.job_id
                       /\ q.status = "downloading"
                       /\ q.worker_id = w
                       /\ q.processing_started_at = now
                       /\ q.heartbeat_at = now

\* C3: claim_next returns only a job that is queued with available_at <= now
\* (or unset) at the call, the one with the smallest created_at among those;
\* it returns None exactly when there is none; the returned job is active,
\* owned by the caller, with processing_started_at = heartbeat_at = now
C3_ClaimNext ==
    [][\A w \in Workers : /\ UClaimReturns(w) => C3_Upload(w)
                          /\ DClaimReturns(w) => C3_Download(w)]_vars

\* claim_next has just returned the older of two jobs, both eligible
C3_Witness ==
    \E r1 \in jobs : \E r2 \in jobs :
        /\ r1.created_at < r2.created_at
        /\ r1.status = "processing" /\ r1.worker_id = "w1"
        /\ r1.processing_started_at = now /\ r1.heartbeat_at = now
        /\ r2.status = "queued" /\ r2.available_at = NULL
        /\ pc["w1"] = "work" /\ wjob["w1"] = r1.id
        /\ "w1" \in claim_run.got[r1.id]

\* worker w reports a failure of job j in this step
UFails(w, j) ==
    /\ config.service = "upload"
    /\ pc[w] = "report" /\ ~wlocal[w].sucesso /\ wjob[w] = j
    /\ pc'[w] = "loop"

DFails(w, j) ==
    /\ config.service = "download"
    /\ pc[w] = "handler_write" /\ wjob[w] = j
    /\ pc'[w] = "loop"

\* C4: tries of a job increases by exactly 1 on each mark_failed or
\* fail_permanently call and is unchanged by every other operation (reclaim,
\* claim_next, heartbeat, mark_done, enqueue); it never decreases
C4_Tries ==
    [][\A j \in JobIds :
         LET ut(tbl) == IF UHas(tbl, j) THEN URow(tbl, j).tries ELSE 0
             dt(tbl) == IF DHas(tbl, j) THEN DRow(tbl, j).tries ELSE 0
         IN  /\ ut(jobs') = ut(jobs) + (IF \E w \in Workers : UFails(w, j)
                                         THEN 1 ELSE 0)
             /\ dt(download_jobs') = dt(download_jobs)
                                      + (IF \E w \in Workers : DFails(w, j)
                                         THEN 1 ELSE 0)]_vars

\* a job failed twice, was claimed a third time and is done, tries still 2
C4_Witness ==
    \E r \in jobs : r.tries = 2 /\ r.status = "done"

\* C5: over the claim/fail cycles of a job, the available_at written by a
\* retryable failure is >= the one written by the failure before it, until a
\* failure makes the job terminal failed; and claim_next never returns a job
\* that is terminal failed unless an enqueue has reset it
C5_BackoffMonotone ==
    [][\A j \in JobIds :
         /\ (/\ ~fail_log[j].terminal
             /\ fail_log[j].at # NULL
             /\ fail_log'[j].at # NULL) => fail_log'[j].at >= fail_log[j].at
         /\ \A w \in Workers :
              (\/ UClaimReturns(w) /\ wjob'[w] = j
               \/ DClaimReturns(w) /\ wlocal'[w].job_row = j)
              => ~fail_log[j].terminal]_vars

\* C6: QueueStore.mark_failed(job_id, error, requeue=True, max_tries=M) sets
\* tries to old tries + 1; with the new tries < M the job is queued with
\* available_at = now + min(60 * 2^(tries-1), 3600), otherwise it is failed;
\* owner and heartbeat fields are cleared either way; a job that fails on
\* every attempt is failed on exactly its M-th failure
C6_MarkFailed ==
    [][(pc["w1"] = "work" /\ pc'["w1"] = "loop") =>
         LET r == URow(jobs, wjob["w1"])
             q == URow(jobs', wjob["w1"])
             M == config.max_tries
             b == IF 60 * (2 ^ r.tries) <= 3600 THEN 60 * (2 ^ r.tries) ELSE 3600
         IN  /\ q.tries = r.tries + 1
             /\ IF q.tries < M
                THEN q.status = "queued" /\ q.available_at = now + b
                ELSE q.status = "failed" /\ q.tries = M
             /\ q.worker_id = NoWorker
             /\ q.heartbeat_at = NULL
             /\ q.processing_started_at = NULL]_vars

\* a job failed for the M-th time, after a failure whose backoff was cut at
\* the ceiling, and is failed
C6_Witness ==
    \E r \in jobs :
        /\ config.service = "mark_failed"
        /\ r.status = "failed"
        /\ r.tries = config.max_tries
        /\ r.tries >= 2
        /\ 60 * (2 ^ (r.tries - 2)) > 3600

\* C7: the failure handler of the download worker loop increments tries and,
\* when the incremented tries is < 5, requeues the job with available_at =
\* (the time of the failure) + min(60 * 2^(tries-1), 3600), else makes it
\* failed: a job that raises on every attempt is failed at its 5th failure
C7_DownloadFailRule ==
    [][\A w \in Workers : \A j \in JobIds :
         DFails(w, j) =>
           LET r == DRow(download_jobs, j)
               q == DRow(download_jobs', j)
               b == IF 60 * (2 ^ r.tries) <= 3600 THEN 60 * (2 ^ r.tries) ELSE 3600
           IN  /\ q.tries = r.tries + 1
               /\ IF q.tries < 5
                  THEN /\ q.status = "queued"
                       /\ q.available_at - b >= T0
                       /\ q.available_at - b <= now
                  ELSE q.status = "failed"]_vars

\* C8: enqueue with the job_id of a done job is a no-op in both stores,
\* whatever the arguments: the row stays done and none of its columns
\* (payload, target fields, stored result and summary) changes
C8_DoneNoOp ==
    /\ \A r \in jobs : r.status = "done" =>
         \A a \in UploadArgs :
           QueueStore_enqueue(jobs, now, r.id, a.obra_nome, a.pasta, a.payload) = jobs
    /\ \A r \in download_jobs : r.status = "done" =>
         \A a \in DownloadArgs :
           DownloadQueueStore_enqueue(download_jobs, now, a.url, a.nome, a.pasta,
               a.expected_total, a.batch_size, r.job_id) = download_jobs

\* a download job is done with its result and summary stored, while the
\* producers may enqueue its job_id again with other arguments
C8_Witness ==
    \E r \in download_jobs :
        /\ r.status = "done" /\ r.result_json # "" /\ r.summary_json = "ok"
        /\ \E a \in DownloadArgs : a.n <= config.nargs /\ a.url # r.url

\* C9: QueueStore.enqueue with the job_id of a job that is queued, processing
\* or failed resets its status to queued, overwrites obra_nome, pasta and
\* payload with the arguments, and keeps exactly one row for the job_id
C9_Reenqueue ==
    \A r \in jobs : r.status \in {"queued", "processing", "failed"} =>
      \A a \in UploadArgs :
        LET t == QueueStore_enqueue(jobs, now, r.id, a.obra_nome, a.pasta, a.payload)
        IN  /\ Cardinality({ q \in t : q.id = r.id }) = 1
            /\ Cardinality(t) = Cardinality(jobs)
            /\ \A q \in t : q.id = r.id =>
                  /\ q.status = "queued"
                  /\ q.obra_nome = a.obra_nome
                  /\ q.pasta = a.pasta
                  /\ q.payload = a.payload

\* an enqueue has reset a job that a worker had claimed and is still
\* uploading, with other arguments than those it was claimed with
C9_Witness ==
    \E r \in jobs : \E w \in Workers :
        /\ r.status = "queued" /\ r.worker_id = w
        /\ UExecuting(w, r.id)
        /\ r.payload = "pB" /\ r.created_at < now

\* C10: DownloadQueueStore.enqueue with the job_id of a download job that is
\* queued, downloading, validating or failed resets its status to queued and
\* overwrites url, nome, pasta, expected_total and batch_size
C10_DownloadReenqueue ==
    \A r \in download_jobs :
      r.status \in {"queued", "downloading", "validating", "failed"} =>
        \A a \in DownloadArgs :
          LET t == DownloadQueueStore_enqueue(download_jobs, now, a.url, a.nome,
                       a.pasta, a.expected_total, a.batch_size, r.job_id)
          IN  \A q \in t : q.job_id = r.job_id =>
                /\ q.status = "queued"
                /\ q.url = a.url
                /\ q.nome = a.nome
                /\ q.pasta = a.pasta
                /\ q.expected_total = a.expected_total
                /\ q.batch_size = a.batch_size

\* the values of timeout_seconds the reclaim methods are evaluated with
ReclaimTimeouts == {0, 600, 1200}

\* C11: reclaim_stale_processing(T) and reclaim_stale_downloading(T) change
\* only jobs that are active and whose heartbeat_at is older than now - T;
\* every queued, done or failed job and every active job whose heartbeat age
\* is at most T is left completely unchanged
C11_ReclaimFrame ==
    \A T \in ReclaimTimeouts :
      /\ \A r \in jobs :
           \/ r \in QueueStore_reclaim_stale_processing(jobs, now, T)
           \/ /\ r.status = "processing"
              /\ r.heartbeat_at # NULL
              /\ r.heartbeat_at < now - T
      /\ \A r \in download_jobs :
           \/ r \in DownloadQueueStore_reclaim_stale_downloading(download_jobs, now, T)
           \/ /\ r.status \in DActive
              /\ r.heartbeat_at # 0
              /\ r.heartbeat_at < now - T

\* a processing job whose heartbeat is 1200 s old: the call with T = 600
\* reverts it, the call with T = 1200 at the same instant leaves it alone
C11_Witness ==
    \E r \in jobs :
        /\ r.status = "processing" /\ r.heartbeat_at = now - 1200
        /\ r \notin QueueStore_reclaim_stale_processing(jobs, now, 600)
        /\ r \in QueueStore_reclaim_stale_processing(jobs, now, 1200)

\* job j is active and no live worker is executing it: whoever held it is
\* dead and sends no further heartbeats
DOrphaned(j) ==
    /\ DHas(download_jobs, j)
    /\ DRow(download_jobs, j).status \in DActive
    /\ \A w \in Workers : DExecuting(w, j) => pc[w] = "dead"

\* C12: crash recovery: an active job whose worker sends no further
\* heartbeats is returned to queued by the reclaim step of a worker that keeps
\* running, once the timeout has elapsed (the clock can still advance past
\* it), and no active job remains active forever
C12_CrashRecovery ==
    \A j \in JobIds :
        (DOrphaned(j) /\ ticks + 2 <= config.maxticks)
            ~> (DHas(download_jobs, j) /\ DRow(download_jobs, j).status = "queued")

\* C13: a job reverted by reclaim_stale gets available_at strictly greater
\* than the time of the reclaim (now + 30 for uploads, now + 5 for downloads),
\* so that a claim_next issued at the same instant never returns that job
C13_ReclaimDelay ==
    \A T \in ReclaimTimeouts :
      /\ LET t == QueueStore_reclaim_stale_processing(jobs, now, T)
         IN  \A r \in QueueStore_stale(jobs, now, T) :
               /\ URow(t, r.id).available_at = now + 30
               /\ URow(t, r.id).available_at > now
               /\ \A q \in QueueStore_oldest(t, now) : q.id # r.id
      /\ LET t == DownloadQueueStore_reclaim_stale_downloading(download_jobs, now, T)
         IN  \A r \in DownloadQueueStore_stale(download_jobs, now, T) :
               /\ DRow(t, r.job_id).available_at = now + 5
               /\ DRow(t, r.job_id).available_at > now
               /\ \A q \in DownloadQueueStore_oldest(t, now) : q.job_id # r.job_id

\* a worker's reclaim has reverted a download job and, at the same instant,
\* a claim_next of a worker has returned nothing
C13_Witness ==
    \E r \in download_jobs : \E w \in Workers :
        /\ r.status = "queued" /\ r.state = "reclaimed"
        /\ r.available_at = now + 5
        /\ w \in claim_run.none

\* the ids of the rows of a table of either store
UIds(tbl) == { r.id : r \in tbl }

DIds(tbl) == { r.job_id : r \in tbl }

\* C14: when two workers call reclaim_stale concurrently while the same job is
\* stale (the store serialises the two calls), exactly one of the two calls
\* reverts and counts that job: the counts of the two calls add up to the
\* number of jobs that were stale, and the job carries one forward-dated
\* available_at and one reclaim note
C14_ReclaimOnce ==
    \A T \in ReclaimTimeouts :
      /\ LET s1 == QueueStore_stale(jobs, now, T)
             t1 == QueueStore_reclaim_stale_processing(jobs, now, T)
             s2 == QueueStore_stale(t1, now, T)
             t2 == QueueStore_reclaim_stale_processing(t1, now, T)
         IN  /\ Cardinality(s1) + Cardinality(s2) = Cardinality(UIds(s1) \cup UIds(s2))
             /\ UIds(s1) \cap UIds(s2) = {}
             /\ \A r \in s1 :
                  /\ URow(t2, r.id).status = "queued"
                  /\ URow(t2, r.id).available_at = now + 30
                  /\ URow(t2, r.id).last_error = Append(r.last_error, "[reclaim]")
             /\ t2 = t1
      /\ LET s1 == DownloadQueueStore_stale(download_jobs, now, T)
             t1 == DownloadQueueStore_reclaim_stale_downloading(download_jobs, now, T)
             s2 == DownloadQueueStore_stale(t1, now, T)
             t2 == DownloadQueueStore_reclaim_stale_downloading(t1, now, T)
         IN  /\ Cardinality(s1) + Cardinality(s2) = Cardinality(DIds(s1) \cup DIds(s2))
             /\ DIds(s1) \cap DIds(s2) = {}
             /\ \A r \in s1 :
                  /\ DRow(t2, r.job_id).status = "queued"
                  /\ DRow(t2, r.job_id).available_at = now + 5
             /\ t2 = t1

\* a download job is stale while a worker is at the top of its loop with its
\* periodic reclaim due
C14_Witness ==
    \E r \in DownloadQueueStore_stale(download_jobs, now, 600) : \E w \in Workers :
        /\ config.service = "download"
        /\ pc[w] = "loop"
        /\ now - last_reclaim[w] > 60

\* C15: a heartbeat for a job whose status is not active (queued, done or
\* failed, for instance after it was reclaimed or completed) changes nothing
\* in the job row, in QueueStore.heartbeat and in DownloadQueueStore.heartbeat
C15_HeartbeatInactive ==
    /\ \A r \in jobs : r.status # "processing" =>
         \A w \in Workers :
           QueueStore_heartbeat(jobs, now, r.id, w) = jobs
    /\ \A r \in download_jobs : r.status \notin DActive =>
         \A a \in ProgressArgs :
           DownloadQueueStore_heartbeat(download_jobs, now, r.job_id, a.chapter,
               a.progress, a.total_images, a.state) = download_jobs

\* a download worker is inside run_download_bot, about to send a heartbeat,
\* for a job that a reclaim has returned to queued
C15_Witness ==
    \E w \in Workers :
        /\ config.service = "download"
        /\ pc[w] = "run"
        /\ DHas(download_jobs, wjob[w])
        /\ DRow(download_jobs, wjob[w]).status = "queued"
        /\ DRow(download_jobs, wjob[w]).state = "reclaimed"

C17_OwnerFields ==
    \A r \in jobs :
        /\ r.status \in {"queued", "done", "failed"} =>
             /\ r.worker_id = NoWorker
             /\ r.heartbeat_at = NULL
             /\ r.processing_started_at = NULL
        /\ r.status = "processing" =>
             /\ r.worker_id # NoWorker
             /\ r.heartbeat_at # NULL

\* the row of a download job carries no owner and no liveness stamp
DOwnerCleared(r) ==
    /\ r.worker_id = ""
    /\ r.processing_started_at = 0
    /\ r.heartbeat_at = 0

\* C18: DownloadQueueStore.mark_done moves the job to done and clears its
\* owner and liveness fields (worker_id, processing_started_at,
\* heartbeat_at); likewise after mark_failed and fail_permanently no owner or
\* heartbeat remains on the row, which is no longer active
C18_TerminalClearsOwner ==
    \A r \in download_jobs :
        /\ \A res \in Results : \A summary \in Summaries :
             LET q == DRow(DownloadQueueStore_mark_done(download_jobs, now,
                               r.job_id, res, summary), r.job_id)
             IN  q.status = "done" /\ DOwnerCleared(q)
        /\ LET q == DRow(DownloadQueueStore_mark_failed(download_jobs, now,
                             r.job_id, "error", now + 60), r.job_id)
           IN  q.status \notin DActive /\ DOwnerCleared(q)
        /\ LET q == DRow(DownloadQueueStore_fail_permanently(download_jobs, now,
                             r.job_id, "error"), r.job_id)
           IN  q.status \notin DActive /\ DOwnerCleared(q)

\* C19: done is terminal and the result is written once: once the status of a
\* download job is done, its status, tries, result_json and summary_json
\* never change again under any later worker-loop iteration or store
\* operation, including an iteration that raises before it has claimed a new job
C19_DoneTerminal ==
    [][ \A r \in download_jobs : r.status = "done" =>
          \E q \in download_jobs' :
              /\ q.job_id = r.job_id
              /\ q.status = "done"
              /\ q.tries = r.tries
              /\ q.result_json = r.result_json
              /\ q.summary_json = r.summary_json ]_vars

\* C20: with thresholds partial_min <= ok_min a chapter with n accepted
\* images is labelled ok iff n >= ok_min, partial iff partial_min <= n <
\* ok_min and broken iff n < partial_min, which is exactly one label for
\* every n >= 0; with partial_min = 1 and ok_min = 3 the counts 0, 1, 2, 3, 5
\* give broken, partial, partial, ok, ok
C20_Classification ==
    bot.MIN_IMAGES_PARTIAL <= bot.MIN_IMAGES_PER_CHAPTER =>
      \A i \in 1..Len(bot.meta) :
        LET n == bot.meta[i].found_images
            label == bot.meta[i].status
            ok_min == bot.MIN_IMAGES_PER_CHAPTER
            partial_min == bot.MIN_IMAGES_PARTIAL
        IN  /\ label \in {"ok", "partial", "broken"}
            /\ label = "ok" <=> n >= ok_min
            /\ label = "partial" <=> (partial_min <= n /\ n < ok_min)
            /\ label = "broken" <=> n < partial_min
            /\ (partial_min = 1 /\ ok_min = 3) =>
                 /\ n = 0 => label = "broken"
                 /\ n \in {1, 2} => label = "partial"
                 /\ n \in {3, 5} => label = "ok"

\* with the thresholds 3 and 1, a chapter with 3 images and then one with 2
\* images have been classified
C20_Witness ==
    /\ bot.MIN_IMAGES_PER_CHAPTER = 3 /\ bot.MIN_IMAGES_PARTIAL = 1
    /\ Len(bot.meta) = 2
    /\ bot.meta[1].found_images = 3 /\ bot.meta[1].status = "ok"
    /\ bot.meta[2].found_images = 2 /\ bot.meta[2].status = "partial"

\* the parameters of a query that are not tracking parameters, decoded
RECURSIVE Remaining(_)
Remaining(query) ==
    IF query = << >> THEN << >>
    ELSE LET k == unquote_plus(Head(query).k)
             v == unquote_plus(Head(query).v)
         IN  (IF is_tracking(k) THEN << >> ELSE <<[k |-> k, v |-> v]>>)
             \o Remaining(Tail(query))

\* C21: normalize_url drops the fragment and every tracking parameter
\* (lower-cased name starting with utm_, or ref, fbclid, gclid, mc_cid,
\* mc_eid) and keeps scheme, host, path and the remaining parameters in
\* order; two locators that differ only in fragment and tracking parameters
\* get equal keys, locators with different paths get different keys, and
\* normalize_url is idempotent
C21_NormalizeUrl ==
    urls # NoUrls /\ urls.keys # << >> =>
      LET ka == urls.keys[1]
          kb == urls.keys[2]
      IN  /\ kb.fragment = ""
          /\ TrackingIn(kb.query) = 0
          /\ kb.scheme = urls.b.scheme /\ kb.netloc = urls.b.netloc
          /\ kb.path = urls.b.path
          /\ Remaining(kb.query) = Remaining(urls.b.query)
          /\ ka = kb
          /\ \A p \in Paths \ {urls.b.path} :
                normalize_url([urls.a EXCEPT !.path = p]) # kb
          /\ normalize_url(kb) = kb

\* a file that holds the whole of a non-empty body
Complete(f) == f # NoFile /\ f.size = f.of /\ f.size > 0

C23_Retries ==
    /\ [](fetch # NoFetch =>
            /\ fetch.gets <= fetch.max_retries
            /\ fetch.pc = "returned" =>
                 /\ fetch.result \in {"True", "False"}
                 /\ fetch.sleeps = fetch.gets - 1
                 /\ fetch.result = "True" =>
                      /\ Complete(fetch.dest)
                      /\ fetch.attempt = fetch.gets
                 /\ fetch.result = "False" =>
                      /\ fetch.gets = fetch.max_retries
                      /\ fetch.dest = NoFile)
    /\ <>(fetch # NoFetch /\ fetch.pc = "returned")

\* the call returned True at its third attempt, after two sleeps
C23_Witness ==
    /\ fetch # NoFetch
    /\ fetch.pc = "returned" /\ fetch.result = "True"
    /\ fetch.gets = 3 /\ fetch.sleeps = 2

\* C24: for every work, over any number of crawl jobs for it (first run,
\* resumes after any kind of stop, batch continuations, final completion),
\* the crawl engine enqueues the upload job at most once: at most one enqueue
\* call is made and at most one row of the upload queue exists for the work
C24_UploadOnce ==
    crawl # NoCrawl =>
      /\ crawl.enqueues <= 1
      /\ Cardinality({ r \in jobs : r.obra_nome = "obraA" }) <= 1

\* C25: the checkpoint of a work is deleted when and only when a job for it
\* ends by end of content; after every other way a job can end (duplicate
\* position, advance did not progress, blocked, expected total reached, user
\* stop, batch rotation, advance exception, fatal error) a checkpoint of the
\* work exists and holds every unit completed so far
C25_CheckpointLifecycle ==
    (crawl # NoCrawl /\ crawl.pc = "returned") =>
      /\ crawl.end = "end_of_content" <=> crawl.progress = NoCheckpoint
      /\ crawl.end # "end_of_content" =>
           /\ crawl.progress # NoCheckpoint
           /\ crawl.progress.capitulos_baixados = crawl.capitulos_baixados

\* the locator the click on "Próximo" offers normalizes to the current
\* position or to the position of a unit completed so far
OffersNoProgress ==
    /\ crawl # NoCrawl
    /\ crawl.pc = "advance"
    /\ NextOf(crawl.site, crawl.page_url) # NoUrl
    /\ \/ normalize_url(NextOf(crawl.site, crawl.page_url)) = normalize_url(crawl.page_url)
       \/ normalize_url(NextOf(crawl.site, crawl.page_url))
            \in VisitedOf(crawl.capitulos_baixados)

StopPosition == IF crawl.page_url # NoUrl THEN crawl.page_url ELSE crawl.url

\* C27: after every abnormal stop of a crawl job (duplicate position,
\* advance did not progress, blocked, user stop, fatal error) the checkpoint
\* records a resume position such that the next job for the work, not forced
\* fresh, starts from that position instead of the initial locator and
\* continues the crawl from there: the checkpoint exists, its resume position
\* is the position the job stopped at and, after a block, the resumed job is
\* not stopped at once by the duplicate guard
C27_Resume ==
    (/\ crawl # NoCrawl
     /\ crawl.pc = "returned"
     /\ crawl.end \in {"url_repetida", "next_nao_avancou", "blocked",
                       "user_stop", "fatal"}) =>
      /\ crawl.progress # NoCheckpoint
      /\ normalize_url(crawl.progress.ultimo_capitulo_url)
           = normalize_url(StopPosition)
      /\ crawl.end = "blocked" =>
           ~url_repetida(crawl.progress.ultimo_capitulo_url,
                         VisitedOf(crawl.progress.capitulos_baixados))

\* the normalized locators of the units of a list are pairwise distinct
DistinctPositions(capitulos_baixados) ==
    \A i, j \in 1..Len(capitulos_baixados) :
       i # j => normalize_url(capitulos_baixados[i].url)
                  # normalize_url(capitulos_baixados[j].url)

\* C28: no position is processed twice: within one job and across any
\* number of resumes of the work by one worker at a time, the normalized
\* locators of the completed units are pairwise distinct, in the run and in
\* the checkpoint, and at a position whose normalized locator is already
\* visited the engine extracts nothing: it stops with reason url_repetida
\* (duplicate position) and persists the checkpoint, unless a stop request
\* or the expected total has ended the loop just before
C28_NoPositionTwice ==
    /\ [](crawl # NoCrawl =>
            /\ DistinctPositions(crawl.capitulos_baixados)
            /\ crawl.progress # NoCheckpoint =>
                 DistinctPositions(crawl.progress.capitulos_baixados))
    /\ [][ (/\ crawl # NoCrawl
            /\ crawl.pc = "while"
            /\ crawl'.pc # "while"
            /\ normalize_url(crawl.page_url) \in VisitedOf(crawl.capitulos_baixados)) =>
             /\ crawl'.pc = "after"
             /\ crawl'.capitulos_baixados = crawl.capitulos_baixados
             /\ crawl'.end \in {"user_stop", "expected_total_reached", "url_repetida"}
             /\ crawl'.end = "url_repetida" =>
                  /\ crawl'.stop_reason = "url_repetida"
                  /\ crawl'.progress # NoCheckpoint
                  /\ crawl'.progress.stopped_reason = "url_repetida"
                  /\ crawl'.progress.capitulos_baixados = crawl.capitulos_baixados
                  /\ crawl'.progress.ultimo_capitulo_url = crawl.page_url ]_vars

\* a resumed job found the browser at chapter 2, reached through a link
\* with a tracking parameter and completed by an earlier job, and has
\* stopped with url_repetida
C28_Witness ==
    /\ crawl # NoCrawl
    /\ crawl.pc = "returned" /\ crawl.end = "url_repetida"
    /\ crawl.jobno >= 2
    /\ crawl.page_url = PageLoc(2, TRUE)
    /\ Len(crawl.capitulos_baixados) >= 2

\* the i-th unit of a list carries the number i
Numbered(capitulos_baixados) ==
    \A i \in 1..Len(capitulos_baixados) : capitulos_baixados[i].numero = i

\* list s is an initial part of list t
IsPrefix(s, t) == Len(s) <= Len(t) /\ SubSeq(t, 1, Len(s)) = s

\* C29: completed_units is append-only and ordered: every checkpoint
\* persisted for a work has a list capitulos_baixados that extends the list
\* of the previously persisted checkpoint of the work as a prefix, and its
\* i-th entry carries unit number i (consecutive from 1, strictly
\* increasing), within a job and across resumes
C29_AppendOnly ==
    /\ [](crawl # NoCrawl =>
            /\ Numbered(crawl.capitulos_baixados)
            /\ crawl.progress # NoCheckpoint =>
                 Numbered(crawl.progress.capitulos_baixados))
    /\ [][ (/\ crawl # NoCrawl
            /\ crawl.progress # NoCheckpoint
            /\ crawl'.progress # NoCheckpoint) =>
             IsPrefix(crawl.progress.capitulos_baixados,
                      crawl'.progress.capitulos_baixados) ]_vars

\* the second job of the work has added unit 3 to a checkpoint that held
\* units 1 and 2 when the job started
C29_Witness ==
    /\ crawl # NoCrawl
    /\ crawl.jobno = 2
    /\ crawl.capitulo = 3
    /\ crawl.progress # NoCheckpoint
    /\ Len(crawl.progress.capitulos_baixados) = 3
    /\ crawl.progress.capitulos_baixados[3].numero = 3

\* C30: when expected_total > 0, the engine stops with reason
\* expected_total_reached before it processes a position whose unit number
\* exceeds expected_total (a stop request may end the loop just before);
\* hence the number of completed units of the work never exceeds
\* expected_total, over one job and over any chain of resumed or
\* continuation jobs with that expected_total
C30_ExpectedTotal ==
    /\ [](crawl # NoCrawl /\ crawl.expected_total > 0 =>
            /\ Len(crawl.capitulos_baixados) <= crawl.expected_total
            /\ crawl.progress # NoCheckpoint =>
                 Len(crawl.progress.capitulos_baixados) <= crawl.expected_total
            /\ crawl.pc \in {"images", "append"} =>
                 crawl.capitulo <= crawl.expected_total)
    /\ [][ (/\ crawl # NoCrawl
            /\ crawl.pc = "while"
            /\ crawl'.pc # "while"
            /\ crawl.job.expected_total > 0
            /\ crawl.capitulo > crawl.job.expected_total) =>
             /\ crawl'.pc = "after"
             /\ crawl'.capitulos_baixados = crawl.capitulos_baixados
             /\ crawl'.end \in {"user_stop", "expected_total_reached"}
             /\ crawl'.end = "expected_total_reached" =>
                  crawl'.stop_reason = "expected_total_reached" ]_vars

\* a work of three chapters crawled with expected_total 2: the job has
\* stopped in front of chapter 3 with two completed units
C30_Witness ==
    /\ crawl # NoCrawl
    /\ crawl.pc = "returned" /\ crawl.end = "expected_total_reached"
    /\ crawl.site.n = 3
    /\ crawl.job.expected_total = 2
    /\ Len(crawl.capitulos_baixados) = 2
    /\ crawl.page_url = PageLoc(3, TRUE)

\* the job ids of the rows of table download_jobs
DJobIds(tbl) == { r.job_id : r \in tbl }

\* the rows a step adds to table download_jobs
NewRows == { r \in download_jobs' : r.job_id \notin DJobIds(download_jobs) }

\* C31: with batch_size = N > 0 one run of run_download_bot processes at
\* most N positions; when the N-th position is completed and the advance
\* succeeded, the run stops with reason batch_requeued (batch rotation), has
\* persisted a checkpoint whose resume position is the next position and has
\* enqueued exactly one continuation job for the same work, whose url is
\* that next position and whose job_id differs from the parent's; with
\* batch_size = 0 a run never enqueues a continuation job
C31_BatchRotation ==
    /\ [](crawl # NoCrawl /\ crawl.job.batch_size > 0 =>
            /\ crawl.batch_counter <= crawl.job.batch_size
            /\ Len(crawl.capitulos_baixados)
                 - (crawl.capitulo - crawl.batch_counter - 1)
                   <= crawl.job.batch_size
            /\ ~(Crawling /\ crawl.batch_counter = crawl.job.batch_size))
    /\ [][ (crawl # NoCrawl /\ Crawling) =>
             IF /\ crawl.job.batch_size > 0
                /\ crawl'.batch_counter = crawl.job.batch_size
                /\ crawl.batch_counter # crawl.job.batch_size
             THEN /\ crawl'.pc = "returned"
                  /\ crawl'.stop_reason = "batch_requeued"
                  /\ crawl.page_url # crawl'.page_url
                  /\ crawl'.progress # NoCheckpoint
                  /\ crawl'.progress.ultimo_capitulo_url = crawl'.page_url
                  /\ crawl'.progress.capitulos_baixados = crawl.capitulos_baixados
                  /\ Cardinality(NewRows) = 1
                  /\ \A r \in NewRows :
                       /\ r.status = "queued"
                       /\ r.url = crawl'.page_url
                       /\ r.nome = "obraA"
                       /\ r.job_id # crawl.job.job_id
                       /\ r.expected_total = crawl.job.expected_total
                       /\ r.batch_size = crawl.job.batch_size
             ELSE NewRows = {} ]_vars

\* the first job of a work of three chapters, run with batch_size 2, has
\* returned after chapter 2 and its continuation is queued at chapter 3
C31_Witness ==
    /\ crawl # NoCrawl
    /\ crawl.pc = "returned" /\ crawl.end = "batch_requeued"
    /\ crawl.job.batch_size = 2 /\ crawl.jobno = 1
    /\ Len(crawl.capitulos_baixados) = 2
    /\ \E r \in download_jobs :
         r.status = "queued" /\ r.url = PageLoc(3, TRUE) /\ r.job_id = "d2"

\* C32: when the continue signal goes false during a job, the engine stops
\* at the next check with a user-requested stop, the result summary of the
\* job carries this stop reason and the resume position, and the stop is not
\* reported as a normal completion
C32_UserStop ==
    /\ [][ (/\ crawl # NoCrawl
            /\ crawl.pc \in {"while", "append"}
            /\ crawl'.pc # crawl.pc
            /\ ~_should_continue) =>
             crawl'.pc = "after" /\ crawl'.end = "user_stop" ]_vars
    /\ [](crawl # NoCrawl /\ crawl.pc = "returned" /\ crawl.end = "user_stop" =>
            /\ crawl.result.kind = "interrompido"
            /\ crawl.result.stopped_reason # "absent"
            /\ crawl.result.resume_url # NoUrl
            /\ normalize_url(crawl.result.resume_url) = normalize_url(StopPosition))

\* the stops of run_download_bot that are policy stops
PolicyStops == {"url_repetida", "next_nao_avancou", "blocked", "batch",
                "expected_total"}

\* C33: when run_download_bot returns an error result (fatal error), the
\* worker loop does not mark the job done, and a policy stop (duplicate
\* position, advance did not progress, blocked, batch rotation, expected
\* total reached) neither increments tries nor marks the job failed.
C33_FatalNotDone ==
    crawl # NoCrawl /\ crawl.pc = "returned" =>
        \A r \in download_jobs : r.job_id = crawl.job.job_id =>
            /\ crawl.result.kind = "error" => r.status # "done"
            /\ crawl.end \in PolicyStops =>
                  r.tries = 0 /\ r.status # "failed" /\ r.state # "error"

\* C34: in every persisted checkpoint the normalized ultimo_capitulo_url is
\* not the normalized url of an entry of the same checkpoint's
\* capitulos_baixados, so that a job resumed from the checkpoint does not stop
\* with url_repetida in its first loop iteration.
C34_CheckpointResumable ==
    crawl # NoCrawl /\ crawl.progress # NoCheckpoint =>
        normalize_url(crawl.progress.ultimo_capitulo_url)
            \notin VisitedOf(crawl.progress.capitulos_baixados)

\* no worker process is inside save_progress or clear_progress
PGQuiescent == \A p \in Workers : crawl.proc[p].pc = "idle"

\* C35: the checkpoint writes are isolated per work: once the calls of
\* save_progress and clear_progress of two worker processes that handle
\* different works have returned, progress.json holds for every work what the
\* last call of the process that owns it wrote (no update of one work is lost
\* or undone by a call for the other work).
C35_ProgressIsolated ==
    PGQuiescent =>
        \A o \in Obras : doc_get(crawl.file, o) = crawl.kept[o]

\* C36: in the upload worker process upload_obra is interrupted between
\* chapters only if the flag upload_running of the store was set to False
\* after the job was claimed; while the flag stays True, a job that is marked
\* done after upload_obra returned success has had every chapter folder of
\* the work visited.
C36_UploadInterrupt ==
    upload # NoUpload =>
        /\ upload.interrupted => upload.stopped
        /\ (/\ pc["w1"] = "flag"
            /\ wjob["w1"] # NoJob
            /\ URow(jobs, wjob["w1"]).status = "done"
            /\ ~upload.stopped) => upload.visited = upload.cap_folders

\* the step is the operator's POST /api/resume
ResumeStep ==
    /\ flags.download_stop_requested = "1"
    /\ flags'.download_stop_requested = "0"
    /\ crawl' = crawl

\* the step is one of the operator (stop, resume): the worker does not move
OperatorStep == [crawl' EXCEPT !.faults = crawl.faults] = crawl

\* the step starts the processing of a position, in a running job or by
\* starting a job
StartsPosition ==
    \/ crawl.pc = "while" /\ crawl'.pc = "images"
    \/ ~Crawling /\ crawl'.pc = "goto"

\* C37 as stated: while download_stop_requested is '1' and the operator has
\* not cleared it with resume, no worker processes a further position,
\* whether the flag was set while a job was active or while the worker was
\* idle, and only the operator's stop and resume change the flag.
C37_StopNotLost ==
    /\ [][ (/\ crawl # NoCrawl
            /\ flags.download_stop_requested = "1"
            /\ ~ResumeStep) =>
             /\ flags'.download_stop_requested = "1"
             /\ ~StartsPosition ]_vars
    /\ [][ (crawl # NoCrawl /\ flags' # flags) => OperatorStep ]_vars

\* C37 amended: a stop request made while a job runs is not lost: while the
\* flag is '1' during the run of a job and neither the operator's resume nor
\* a worker that claims a job has cleared it, the run starts no further
\* position and the flag stays set; the flag is changed only by the
\* operator's stop and resume and by a worker that has claimed a job (it sets
\* the flag to '0').
C37_StopNotLostWhileRunning ==
    /\ [][ (/\ crawl # NoCrawl
            /\ Crawling
            /\ flags.download_stop_requested = "1"
            /\ ~ResumeStep) =>
             /\ flags'.download_stop_requested = "1"
             /\ ~StartsPosition ]_vars
    /\ [][ (crawl # NoCrawl /\ flags' # flags) =>
             \/ OperatorStep
             \/ /\ ~Crawling
                /\ crawl'.pc = "goto"
                /\ flags'.download_stop_requested = "0" ]_vars

\* a job that a stop request ended, the flag still set
C37_Witness ==
    /\ crawl # NoCrawl
    /\ crawl.pc = "returned"
    /\ crawl.end = "user_stop"
    /\ flags.download_stop_requested = "1"
    /\ Len(crawl.capitulos_baixados) < crawl.site.n

\* C38: the terminal transitions are fenced by ownership: a step of a worker
\* loop other than its periodic reclaim (mark_done, mark_failed, set_status,
\* fail_permanently) leaves unchanged every active row that another worker
\* owns, e.g. the row of a job that was reclaimed from this worker and
\* claimed by the other; so a job leaves the active state only through its
\* current owner or through the reclaim of stale jobs.
C38_OwnerFenced ==
    [][ \A w \in Workers :
          (pc'[w] # pc[w] /\ pc[w] # "loop") =>
             /\ \A r \in jobs :
                  (r.status = "processing" /\ r.worker_id # w) => r \in jobs'
             /\ \A r \in download_jobs :
                  (r.status \in DActive /\ r.worker_id # w) => r \in download_jobs'
      ]_vars

\* the run flag of the service is on
FlagOn == IF config.service = "upload" THEN runtime
          ELSE flags.download_running = "1"

\* job j is queued and claim_next would return it now
Claimable(j) ==
    \/ \E r \in QueueStore_eligible(jobs, now) : r.id = j
    \/ \E r \in DownloadQueueStore_eligible(download_jobs, now) : r.job_id = j

\* job j has been claimed by a worker
Claimed(j) ==
    \/ \E r \in jobs : r.id = j /\ r.status = "processing"
    \/ \E r \in download_jobs : r.job_id = j /\ r.status \in DActive

\* turning the run flag off leaves every job as it is, and while the flag
\* stays on every job that can be claimed is eventually claimed
GateKeepsAndServes ==
    /\ [][ (FlagOn /\ ~FlagOn') =>
             jobs' = jobs /\ download_jobs' = download_jobs ]_vars
    /\ \A j \in JobIds : (Claimable(j) /\ []FlagOn) ~> Claimed(j)

\* C39 as stated: a worker loop never claims a job while the run flag is
\* off; turning the flag off leaves every queued job queued; once the flag is
\* on and the worker keeps polling, every queued job whose available_at has
\* passed is eventually claimed.
C39_RunFlagGating ==
    /\ [][ (\E j \in JobIds : ~Claimed(j) /\ Claimed(j)') => FlagOn ]_vars
    /\ GateKeepsAndServes

\* C39 amended: a worker loop claims a job only in an iteration in which it
\* has read the run flag as on (the flag may have been turned off between
\* that read and the claim); the rest as stated.
C39_RunFlagGatingPerIteration ==
    /\ [][ (pc'["w1"] = "claim" /\ pc["w1"] # "claim") => FlagOn ]_vars
    /\ [][ (\E j \in JobIds : ~Claimed(j) /\ Claimed(j)') => pc["w1"] = "claim" ]_vars
    /\ GateKeepsAndServes

\* time has passed, the flag is on, one job is done and the second job has
\* been claimed
C39_Witness ==
    /\ config \in {Gating("upload"), Gating("download")}
    /\ FlagOn
    /\ Claimed("j2")
    /\ \E r \in jobs \cup download_jobs : r.status = "done"
    /\ ticks > 0

\* the largest count of field f in the cycles 1..k of seen; -1 when k = 0
RECURSIVE BestSeen(_, _, _)
BestSeen(seen, f, k) ==
    IF k = 0 THEN -1
    ELSE Max(IF f = "wrappers" THEN seen[k].wrappers ELSE seen[k].imgs,
             BestSeen(seen, f, k - 1))

\* in cycle k neither count exceeded the best value seen before it
QuietCycle(seen, k) ==
    /\ seen[k].wrappers <= BestSeen(seen, "wrappers", k - 1)
    /\ seen[k].imgs <= BestSeen(seen, "imgs", k - 1)

\* the last n cycles of seen were all quiet
QuietFor(seen, n) ==
    /\ n <= Len(seen)
    /\ \A k \in (Len(seen) - n + 1)..Len(seen) : QuietCycle(seen, k)

\* C40 as stated: scroll_until_stable ends after at most max_cycles cycles,
\* and it stops early exactly at the first cycle at which neither count has
\* exceeded its best-seen value for stable_cycles consecutive cycles,
\* whatever the counts are, also when no wrapper or image was ever seen.
C40_ScrollStops ==
    /\ [](scroll # NoScroll => scroll.cycles <= scroll.max_cycles)
    /\ [][ (scroll # NoScroll /\ scroll'.cycles = scroll.cycles + 1) =>
             (scroll'.broke <=> QuietFor(scroll'.seen, scroll.stable_cycles)) ]_vars

\* C40 amended: the early stop also needs that the wrapper count or the
\* image count of that cycle is positive; while the page shows nothing the
\* loop runs all max_cycles cycles.
C40_ScrollStopsWhenShown ==
    /\ [](scroll # NoScroll => scroll.cycles <= scroll.max_cycles)
    /\ [][ (scroll # NoScroll /\ scroll'.cycles = scroll.cycles + 1) =>
             (scroll'.broke <=>
                 /\ QuietFor(scroll'.seen, scroll.stable_cycles)
                 /\ \/ scroll'.seen[scroll'.cycles].wrappers > 0
                    \/ scroll'.seen[scroll'.cycles].imgs > 0) ]_vars
    /\ [](scroll # NoScroll /\ scroll.pc = "returned" /\ ~scroll.broke =>
             scroll.cycles = scroll.max_cycles)

\* an early stop after two quiet cycles that followed a growth
C40_Witness ==
    /\ scroll # NoScroll
    /\ scroll.pc = "returned"
    /\ scroll.broke
    /\ scroll.stable_cycles = 2
    /\ scroll.cycles = 3
    /\ scroll.cycles < scroll.max_cycles

====
